---- MODULE Spec2Model ----
(***************************************************************************)
(* Cosmic-Connect: the device & conversation synchronisation engine.       *)
(*                                                                         *)
(*   SpecApplet   the applet's device map (src/src/main.rs) fed by         *)
(*                fetch_devices (src/src/dbus.rs)                          *)
(*   SpecPairing  the pairing watcher task (src/src/notifications.rs)      *)
(*   SpecSms      the conversation signal watcher                          *)
(*                (src/src/plugins/sms/dbus.rs)                            *)
(*   SpecWindow   the SMS window (src/src/plugins/sms/app.rs) and the      *)
(*                send_sms tasks it spawns (src/src/plugins/sms/dbus.rs)   *)
(*   SpecBridge   the notification action bridge                           *)
(*                (src/src/notifications.rs, send_notification_with_action)*)
(*   SpecPool     the pooled session connection (src/src/dbus.rs) and the  *)
(*                shutdown paths that clean it up (src/src/main.rs)        *)
(*   SpecFetch    the two fetches as functions of what the bus and the     *)
(*                daemon answer: fetch_devices (src/src/dbus.rs) and       *)
(*                fetch_conversations (src/src/plugins/sms/dbus.rs)        *)
(*   SpecSubscription  the applet's pairing-notifications subscription     *)
(*                and the static receiver it reads (src/src/main.rs)       *)
(*   SpecSettings the settings application's refresh throttle              *)
(*                (src/src/settings.rs)                                    *)
(*                                                                         *)
(* Option<T> is modelled as a sequence: <<>> is None, <<x>> is Some(x).    *)
(* A string that the code splits or searches is a sequence of characters.  *)
(***************************************************************************)
EXTENDS Integers, Sequences, FiniteSets, TLC

VARIABLES
    \* ---- applet (main.rs) ----
    devices,        \* KdeConnectApplet::devices : HashMap<String, Device>
    old_ids,        \* key set of old_devices, the map taken by the last DevicesUpdated
    lastMsg,        \* the Message last handled by update()
    fetching,       \* number of dbus::fetch_devices() tasks in flight
    lastMedia       \* history: per id, the media-session state last set by
                    \* MediaPlayersUpdated / MediaInfoUpdated

VARIABLES
    \* ---- pairing watcher (notifications.rs) ----
    use_polling,            \* argument of start_notification_listener
    watcher,                \* where the spawned task is: "new", "subscribe",
                            \* "signal", "poll" or "done"
    subscription,           \* outcome of the signal subscription: "none", "ok", "failed"
    streamEnded,            \* the pairStateChanged MessageStream has ended
    known_pairing_states,   \* NotificationHandler::known_pairing_states
    pollQueue,              \* polling: device ids of this tick still to be checked
    ticks,                  \* polling ticks so far
    received,               \* stream items read so far
    lastSignal,             \* the stream item last read in signal mode
    chan,                   \* PairingNotifications sent on tx, in order
    rxDropped,              \* the receiver of the channel has been dropped
    lastSend,               \* tx.send in the watcher's last step: "none", "ok", "failed"
    polled,                 \* history: per id, the isPairRequestedByPeer values polled
    notified,               \* history: ids notified and not seen non-requested since
    statesLock,             \* the holder of the known_pairing_states mutex:
                            \* "free" or "poller"
    awaitingInfo            \* polling: the device whose get_device_info and
                            \* tx.send are awaited: Option<String>

VARIABLES
    \* ---- conversation signal watcher (plugins/sms/dbus.rs) ----
    smsWatcher,     \* where the spawned task is: "connect", "listen" or "ended"
    smsChan,        \* Messages sent on the unbounded channel, in order
    smsRxDropped,   \* the receiving stream has been dropped
    smsReceived,    \* stream items read so far
    lastSmsSend,    \* tx.send in the watcher's last step: "none", "ok", "failed"
    lastSmsItem     \* the stream item read by the watcher's last step, None
                    \* after any other step

VARIABLES
    \* ---- SMS window (plugins/sms/app.rs) ----
    conversations,      \* SmsWindow::conversations : Vec<Conversation>
    messages,           \* SmsWindow::messages : Vec<Message>
    selected_thread,    \* SmsWindow::selected_thread : Option<String>
    message_input,      \* SmsWindow::message_input
    clock,              \* what now_millis() returns
    loading,            \* number of dbus::fetch_conversations() tasks in flight
    pendingSelect,      \* SelectThread messages queued by start_chat_with_number
    sendTasks,          \* the running tasks spawned by send_message, in spawn order
    sendOutcome         \* what send_message did when the last step was SendMessage
                        \* ("ignored" or "spawned"), "none" after any other step

VARIABLES
    \* ---- notification action bridge (notifications.rs) ----
    bridgePc,           \* where send_notification_with_action is: "start",
                        \* "notified", "waiting", "returned", "failed" or
                        \* "panicked"
    notification_id,    \* the id returned by Notify: Option<u32>
    actionStream,       \* items pending on the ActionInvoked MessageStream
    closeStream,        \* items pending on the NotificationClosed MessageStream
    launches,           \* the commands spawned so far, each with its outcome
    brokeOn,            \* the select! branch that left the loop: "none",
                        \* "action" or "closed"
    handled,            \* the stream item taken by the last step of the loop,
                        \* None after any other step
    terminalEmitted     \* history: the daemon has emitted, after Notify
                        \* returned, a signal that ends the notification

VARIABLES
    \* ---- connection pool (dbus.rs) ----
    pool,           \* the slot of CONNECTION_POOL : Option<Connection>
    poolLock,       \* the holder of the CONNECTION_POOL mutex, or "free"
    callerPc,       \* per task calling get_connection(): "idle", "locked",
                    \* "connecting" or "returned"
    callerResult,   \* per task, what its last get_connection() returned
    calls,          \* per task, the calls of get_connection() started
    cleanerPc,      \* per shutdown path: "idle", "locked" or "done"
    connectionsMade,        \* session connections established so far
    closedLog,      \* "D-Bus connection pool closed" lines written
    exited,         \* the process has exited

    \* ---- the fetches as functions of the daemon's answers ----
    devicesCall,        \* the last fetch_devices() call: None, or Some of what
                        \* the bus and the daemon answered and what it returned
    conversationsCall   \* the same for the last fetch_conversations() call

VARIABLES
    \* ---- pairing-notifications subscription (main.rs) ----
    pairing_receiver,   \* PAIRING_RECEIVER : Option<Receiver>, the receiver
                        \* being the queue of notifications not yet received
    initTask,           \* the task spawned by init(): "spawned" or "done"
    listenerTx,         \* the listener's Sender: "none", "live" or "dropped"
    unfoldPc,           \* the unfold stream: "polling" or "ended"
    sentLog,            \* history: the notifications the listener has sent
    uiInbox             \* the Messages the subscription has produced

VARIABLES
    \* ---- settings application (settings.rs) ----
    settingsClock,      \* the monotonic clock, in half seconds
    last_interaction,   \* KdeConnectSettings::last_interaction : Instant
    is_loading,         \* KdeConnectSettings::is_loading
    settingsFetches,    \* fetch_devices() tasks in flight
    lastUpdate          \* history: what the last call of update() was given
                        \* and did, None after a step that is no update()

appletVars == <<devices, old_ids, lastMsg, fetching, lastMedia>>

pairingVars == <<use_polling, watcher, subscription, streamEnded, known_pairing_states,
                 pollQueue, ticks, received, lastSignal, chan, rxDropped, lastSend,
                 polled, notified, statesLock, awaitingInfo>>

smsVars == <<smsWatcher, smsChan, smsRxDropped, smsReceived, lastSmsSend, lastSmsItem>>

windowVars == <<conversations, messages, selected_thread, message_input, clock,
                loading, pendingSelect, sendTasks, sendOutcome>>

bridgeVars == <<bridgePc, notification_id, actionStream, closeStream, launches,
               brokeOn, handled, terminalEmitted>>

poolVars == <<pool, poolLock, callerPc, callerResult, calls, cleanerPc, connectionsMade,
              closedLog, exited>>

fetchVars == <<devicesCall, conversationsCall>>

subscriptionVars == <<pairing_receiver, initTask, listenerTx, unfoldPc, sentLog, uiInbox>>

settingsVars == <<settingsClock, last_interaction, is_loading, settingsFetches, lastUpdate>>

vars == <<appletVars, pairingVars, smsVars, windowVars, bridgeVars, poolVars, fetchVars,
         subscriptionVars, settingsVars>>

\* what the actions of one component leave alone
notApplet == <<pairingVars, smsVars, windowVars, bridgeVars, poolVars, fetchVars,
    subscriptionVars, settingsVars>>
notPairing == <<appletVars, smsVars, windowVars, bridgeVars, poolVars, fetchVars,
    subscriptionVars, settingsVars>>
notSms == <<appletVars, pairingVars, windowVars, bridgeVars, poolVars, fetchVars,
    subscriptionVars, settingsVars>>
notWindow == <<appletVars, pairingVars, smsVars, bridgeVars, poolVars, fetchVars,
    subscriptionVars, settingsVars>>
notBridge == <<appletVars, pairingVars, smsVars, windowVars, poolVars, fetchVars,
    subscriptionVars, settingsVars>>
notPool == <<appletVars, pairingVars, smsVars, windowVars, bridgeVars, fetchVars,
    subscriptionVars, settingsVars>>
notFetch == <<appletVars, pairingVars, smsVars, windowVars, bridgeVars, poolVars,
    subscriptionVars, settingsVars>>
notSubscription == <<appletVars, pairingVars, smsVars, windowVars, bridgeVars, poolVars,
    fetchVars, settingsVars>>
notSettings == <<appletVars, pairingVars, smsVars, windowVars, bridgeVars, poolVars,
    fetchVars, subscriptionVars>>

----------------------------------------------------------------------------
\* Bounds of the model

MaxInFlight == 2    \* fetch tasks in flight
MaxTicks == 3       \* ticks of the polling loop
MaxSignals == 3     \* items read from the pairing signal stream
MaxSmsSignals == 4  \* items read from the conversations signal stream
MaxClock == 3       \* largest value of the clock
MaxLoads == 1       \* fetch_conversations tasks in flight
MaxMessages == 2    \* messages in the window's list
MaxSends == 1       \* send tasks running
MaxConversations == 3   \* conversations in the list when a chat is started
MaxPending == 1     \* queued SelectThread messages
MaxStream == 2      \* signals pending on one stream of the notification bridge
MaxCalls == 2       \* calls of get_connection() by one task
MaxNotifications == 2   \* notifications the pairing listener sends
MaxHalfSeconds == 6     \* the settings application's clock, in half seconds
MaxSettingsFetches == 2 \* fetch_devices() tasks of the settings application in flight

DeviceIds == {"a", "b"}

None == <<>>
Some(x) == <<x>>

EmptyMap == [k \in {} |-> {}]

MapInsert(m, k, v) == [x \in DOMAIN m \cup {k} |-> IF x = k THEN v ELSE m[x]]

----------------------------------------------------------------------------
\* ---- applet: data ----

PlayerLists == {<<>>, <<"vlc">>}

\* Option<MediaPlayerInfo>; only the player field is read by update()
MediaInfos == {None,
               Some([player |-> "", title |-> "t"]),
               Some([player |-> "vlc", title |-> "t"])}

\* Device as fetch_devices builds it for a listed id: media fields empty
FreshDevice(id, reachable) ==
    [id |-> id,
     is_reachable |-> reachable,
     available_players |-> <<>>,
     current_player |-> None,
     media_info |-> None]

MediaOf(device) ==
    [available_players |-> device.available_players,
     current_player |-> device.current_player,
     media_info |-> device.media_info]

NoMedia == [available_players |-> <<>>, current_player |-> None, media_info |-> None]

Ids(list) == {list[i].id : i \in 1..Len(list)}

\* the distinct-id lists the daemon can report
IdLists ==
    {s \in UNION {[1..n -> DeviceIds] : n \in 0..Cardinality(DeviceIds)} :
        \A i, j \in 1..Len(s) : i # j => s[i] # s[j]}

----------------------------------------------------------------------------
\* ---- dbus::fetch_devices ----

\* Result<T, E>::unwrap_or on a property read: <<v>> is Ok(v), <<>> is Err
UnwrapOr(result, default) == IF result = <<>> THEN default ELSE result[1]

\* the results the isReachable reads of one fetch can have
ReadResults == [DeviceIds -> {<<>>, <<TRUE>>, <<FALSE>>}]

\* dbus.rs 75-147: one Device per reported id, in the reported order; a
\* failed property read yields its default
RECURSIVE BuildDevices(_, _)
BuildDevices(device_ids, isReachable) ==
    IF device_ids = <<>> THEN <<>>
    ELSE <<FreshDevice(Head(device_ids), UnwrapOr(isReachable[Head(device_ids)], FALSE))>>
         \o BuildDevices(Tail(device_ids), isReachable)

\* dbus.rs 53-159. busOk: get_connection, the "devices" call and the
\* deserialisation of its reply all succeeded
fetch_devices(busOk, device_ids, isReachable) ==
    IF busOk THEN BuildDevices(device_ids, isReachable) ELSE <<>>

\* every list a fetch_devices() task can return
FetchResults ==
    {fetch_devices(busOk, device_ids, isReachable) :
        busOk \in BOOLEAN, device_ids \in IdLists, isReachable \in ReadResults}

----------------------------------------------------------------------------
\* ---- KdeConnectApplet::update ----

\* a faulty CarryOver: media_info is not copied
CarryOverNoInfo(device, old_device) ==
    [device EXCEPT !.available_players = old_device.available_players,
                   !.current_player = old_device.current_player]

\* main.rs 159-163: the media-session fields of the old entry are copied
CarryOver(device, old_device) ==
    [device EXCEPT !.available_players = old_device.available_players,
                   !.current_player = old_device.current_player,
                   !.media_info = old_device.media_info]

\* main.rs 158-165: the loop over the fresh list
RECURSIVE InsertAll(_, _, _)
InsertAll(acc, old, fresh) ==
    IF fresh = <<>> THEN acc
    ELSE LET device == Head(fresh)
             merged == IF device.id \in DOMAIN old
                       THEN CarryOver(device, old[device.id])
                       ELSE device
         IN InsertAll(MapInsert(acc, device.id, merged), old, Tail(fresh))

\* a faulty MergeDevices: the old map is not taken, fresh entries are added to it
MergeKeepOld(old, fresh) == InsertAll(old, old, fresh)

\* main.rs 155-166: std::mem::take leaves self.devices empty, then the loop
MergeDevices(old, fresh) == InsertAll(EmptyMap, old, fresh)

\* main.rs 472-481
ApplyMediaInfo(device, info) ==
    [device EXCEPT !.media_info = info,
                   !.current_player =
                       IF info # None /\ info[1].player # ""
                       THEN Some(info[1].player)
                       ELSE @]

\* main.rs 512-516
ApplyMediaPlayers(device, players) ==
    [device EXCEPT !.available_players = players]

----------------------------------------------------------------------------
\* ---- applet: actions ----

AppletStart ==
    /\ devices = EmptyMap
    /\ old_ids = {}
    /\ lastMsg = [type |-> "Init", devices |-> <<>>]
    /\ fetching = 1                 \* init() performs one fetch_devices()
    /\ lastMedia = [d \in DeviceIds |-> NoMedia]

\* Message::RefreshDevices (the 5 s tick, or the follow-up of a command):
\* main.rs 150-154 spawns a fetch_devices() task
RefreshDevices ==
    /\ fetching < MaxInFlight
    /\ fetching' = fetching + 1
    /\ lastMsg' = [type |-> "RefreshDevices", devices |-> <<>>]
    /\ UNCHANGED <<notApplet, devices, old_ids, lastMedia>>

\* A fetch_devices() task finishes with what the daemon reports at that
\* time, and update() handles the resulting Message::DevicesUpdated(fresh)
DevicesUpdated ==
    /\ fetching > 0
    /\ fetching' = fetching - 1
    /\ \E fresh \in FetchResults :
          /\ devices' = MergeDevices(devices, fresh)
          /\ lastMsg' = [type |-> "DevicesUpdated", devices |-> fresh]
    /\ old_ids' = DOMAIN devices
    /\ UNCHANGED <<notApplet, lastMedia>>

\* Message::MediaInfoUpdated(device_id, info)
MediaInfoUpdated ==
    \E device_id \in DeviceIds, info \in MediaInfos :
       /\ IF device_id \in DOMAIN devices
          THEN /\ devices' = [devices EXCEPT ![device_id] = ApplyMediaInfo(@, info)]
               /\ lastMedia' = [lastMedia EXCEPT ![device_id] = MediaOf(devices'[device_id])]
          ELSE UNCHANGED <<devices, lastMedia>>
       /\ lastMsg' = [type |-> "MediaInfoUpdated", devices |-> <<>>]
       /\ UNCHANGED <<notApplet, old_ids, fetching>>

\* Message::MediaPlayersUpdated(device_id, players)
MediaPlayersUpdated ==
    \E device_id \in DeviceIds, players \in PlayerLists :
       /\ IF device_id \in DOMAIN devices
          THEN /\ devices' = [devices EXCEPT ![device_id] = ApplyMediaPlayers(@, players)]
               /\ lastMedia' = [lastMedia EXCEPT ![device_id] = MediaOf(devices'[device_id])]
          ELSE UNCHANGED <<devices, lastMedia>>
       /\ lastMsg' = [type |-> "MediaPlayersUpdated", devices |-> <<>>]
       /\ UNCHANGED <<notApplet, old_ids, fetching>>

AppletNext ==
    \/ RefreshDevices
    \/ DevicesUpdated
    \/ MediaInfoUpdated
    \/ MediaPlayersUpdated

----------------------------------------------------------------------------
\* ---- pairing watcher: data ----

\* device ids as Strings, i.e. sequences of characters
PairIds == {<<"a">>, <<"b">>}

PairIdLists ==
    {s \in UNION {[1..n -> PairIds] : n \in 0..Cardinality(PairIds)} :
        \A i, j \in 1..Len(s) : i # j => s[i] # s[j]}

\* "/modules/kdeconnect/devices/"
DevicesPrefix ==
    <<"/", "m", "o", "d", "u", "l", "e", "s",
      "/", "k", "d", "e", "c", "o", "n", "n", "e", "c", "t",
      "/", "d", "e", "v", "i", "c", "e", "s", "/">>

\* notifications.rs 223, 250: format!("/modules/kdeconnect/devices/{}", device_id)
DevicePath(device_id) == DevicesPrefix \o device_id

\* str::split(sep): the segments between separators, empty ones included
RECURSIVE SplitFrom(_, _, _)
SplitFrom(str, sep, current) ==
    IF str = <<>> THEN <<current>>
    ELSE IF Head(str) = sep
         THEN <<current>> \o SplitFrom(Tail(str), sep, <<>>)
         ELSE SplitFrom(Tail(str), sep, Append(current, Head(str)))

Split(str, sep) == SplitFrom(str, sep, <<>>)

\* a faulty extract_device_id_from_path: the first segment after the root
ExtractFirstSegment(path) ==
    LET segments == Split(path, "/")
    IN IF Len(segments) > 1 THEN segments[2] ELSE <<>>

\* notifications.rs 283-289: path.split('/').last().unwrap_or("")
extract_device_id_from_path(path) ==
    LET segments == Split(path, "/")
    IN IF segments = <<>> THEN <<>> ELSE segments[Len(segments)]

\* a D-Bus value as a tagged tuple: <<"Str", s>>, <<"I32", n>>, <<"Bool", b>>
\* a Result as a sequence: <<>> is Err, <<v>> is Ok(v)

\* what body.deserialize::<i32>() yields (notifications.rs 109)
DeserializeI32(body) ==
    IF body[1] = "I32" THEN <<body[2]>> ELSE <<>>

\* OwnedValue::downcast_ref::<String>() ... unwrap_or_else(default)
DowncastStringOr(value, default) ==
    IF value[1] = "Str" THEN value[2] ELSE default

\* notifications.rs 249-280: both property calls use `?`, a wrong-typed
\* value yields the default
get_device_info(name_result, type_result) ==
    IF name_result = <<>> \/ type_result = <<>> THEN <<>>
    ELSE <<[name |-> DowncastStringOr(name_result[1], "Unknown Device"),
            type |-> DowncastStringOr(type_result[1], "unknown")]>>

NameResults == {<<>>, << <<"Str", "Pixel">> >>, << <<"Bool", TRUE>> >>}
TypeResults == {<<>>, << <<"Str", "phone">> >>}

\* every outcome of a get_device_info call
DeviceInfoResults ==
    {get_device_info(n, t) : n \in NameResults, t \in TypeResults}

\* notifications.rs 122-126, 178-182
PairingNotification(device_id, info) ==
    [device_id |-> device_id, device_name |-> info.name, device_type |-> info.type]

\* the items the pairStateChanged stream can yield: an Err, or a signal with
\* its object path and body
SignalBodies == {<<"I32", n>> : n \in 0..3} \cup {<<"Str", "x">>}

StreamItems ==
    {[ok |-> FALSE, path |-> <<>>, body |-> <<"Str", "x">>]}
    \cup {[ok |-> TRUE, path |-> DevicePath(d), body |-> b] :
             d \in PairIds, b \in SignalBodies}

\* notifications.rs 240-245: Get isPairRequestedByPeer, Err on a failed call
\* or a value that is no bool
check_pairing_request(result) ==
    IF result = <<>> THEN <<>>
    ELSE IF result[1][1] = "Bool" THEN <<result[1][2]>> ELSE <<>>

PairRequestResults ==
    {<<>>, << <<"Bool", TRUE>> >>, << <<"Bool", FALSE>> >>, << <<"Str", "x">> >>}

\* notifications.rs 116: the state that triggers a notification
IsRequestedByPeer(pair_state) == pair_state = 2

\* notifications.rs 167: states.get(&device_id).copied().unwrap_or(false)
WasRequesting(states, device_id) ==
    IF device_id \in DOMAIN states THEN states[device_id] ELSE FALSE

\* main.rs 63: tokio::sync::mpsc::channel(100)
ChannelCapacity == 100

\* a faulty AfterListen: polling also after the stream ended
ListenFallsBackOnEnd(result) == "poll"

\* a faulty AfterListen: no fallback to polling
ListenNoFallback(result) == "done"

\* notifications.rs 317-327: what the task does when
\* listen_for_pairing_signals returns: Ok(()) after the stream ended, Err
\* when the subscription could not be established
AfterListen(result) == IF result = "Ok" THEN "done" ELSE "poll"

----------------------------------------------------------------------------
\* ---- pairing watcher: actions ----

PairingStart ==
    /\ use_polling \in BOOLEAN
    /\ watcher = "new"
    /\ subscription = "none"
    /\ streamEnded = FALSE
    /\ known_pairing_states = EmptyMap
    /\ pollQueue = <<>>
    /\ ticks = 0
    /\ received = 0
    /\ lastSignal = [ok |-> FALSE, path |-> <<>>, body |-> <<"Str", "x">>]
    /\ chan = <<>>
    /\ rxDropped = FALSE
    /\ lastSend = "none"
    /\ polled = [d \in PairIds |-> <<>>]
    /\ notified = {}
    /\ statesLock = "free"
    /\ awaitingInfo = None

\* tx.send(notification).await (notifications.rs 129-131, 184-186): fails
\* once the receiver is gone, and the failure is only logged
Send(notification) ==
    /\ Len(chan) < ChannelCapacity
    /\ IF rxDropped
       THEN /\ chan' = chan
            /\ lastSend' = "failed"
            /\ UNCHANGED notified
       ELSE /\ chan' = Append(chan, notification)
            /\ lastSend' = "ok"
            /\ notified' = notified \cup {notification.device_id}

NoSend == /\ chan' = chan
          /\ lastSend' = "none"

\* notifications.rs 309-315, 330-332: NotificationHandler::new() and the
\* choice of the mode
HandlerNew ==
    /\ watcher = "new"
    /\ \E created \in BOOLEAN :
          watcher' = IF ~created THEN "done"
                     ELSE IF use_polling THEN "poll" ELSE "subscribe"
    /\ UNCHANGED <<notPairing, statesLock, awaitingInfo, use_polling, subscription, streamEnded, known_pairing_states,
                   pollQueue, ticks, received, lastSignal, chan, rxDropped,
                   lastSend, polled, notified>>

\* notifications.rs 87-97: the match rule and MessageStream::for_match_rule
Subscribe ==
    /\ watcher = "subscribe"
    /\ \E established \in BOOLEAN :
          IF established
          THEN /\ subscription' = "ok"
               /\ watcher' = "signal"
          ELSE /\ subscription' = "failed"
               /\ watcher' = AfterListen("Err")
    /\ UNCHANGED <<notPairing, statesLock, awaitingInfo, use_polling, streamEnded, known_pairing_states, pollQueue, ticks,
                   received, lastSignal, chan, rxDropped, lastSend, polled, notified>>

\* notifications.rs 101-145: one item of the stream
HandleSignal ==
    /\ watcher = "signal"
    /\ ~streamEnded
    /\ received < MaxSignals
    /\ received' = received + 1
    /\ \E item \in StreamItems, info \in DeviceInfoResults :
          /\ lastSignal' = item
          /\ IF ~item.ok \/ DeserializeI32(item.body) = <<>>
             THEN NoSend /\ UNCHANGED notified
             ELSE LET device_id == extract_device_id_from_path(item.path)
                      pair_state == DeserializeI32(item.body)[1]
                  IN IF IsRequestedByPeer(pair_state)
                     THEN IF info # <<>>
                          THEN Send(PairingNotification(device_id, info[1]))
                          ELSE NoSend /\ UNCHANGED notified
                     ELSE NoSend /\ notified' = notified \ {device_id}
    /\ UNCHANGED <<notPairing, statesLock, awaitingInfo, use_polling, watcher, subscription, streamEnded,
                   known_pairing_states, pollQueue, ticks, polled, rxDropped>>

\* the bus connection closes: the stream yields None from now on
StreamEnds ==
    /\ watcher = "signal"
    /\ ~streamEnded
    /\ streamEnded' = TRUE
    /\ UNCHANGED <<notPairing, statesLock, awaitingInfo, use_polling, watcher, subscription, known_pairing_states, pollQueue,
                   ticks, received, lastSignal, chan, rxDropped, lastSend, polled,
                   notified>>

\* notifications.rs 101, 147 and 318-320: stream.next() is None, the loop is
\* left and listen_for_pairing_signals returns Ok(())
ListenReturns ==
    /\ watcher = "signal"
    /\ streamEnded
    /\ watcher' = AfterListen("Ok")
    /\ lastSend' = "none"
    /\ UNCHANGED <<notPairing, statesLock, awaitingInfo, use_polling, subscription, streamEnded, known_pairing_states,
                   pollQueue, ticks, received, lastSignal, chan, rxDropped, polled,
                   notified>>

\* notifications.rs 158-162, 198-200: sleep, then get_all_devices()
PollTick ==
    /\ watcher = "poll"
    /\ pollQueue = <<>>
    /\ awaitingInfo = None
    /\ ticks < MaxTicks
    /\ ticks' = ticks + 1
    /\ \E listed \in BOOLEAN, device_ids \in PairIdLists :
          pollQueue' = IF listed THEN device_ids ELSE <<>>
    /\ lastSend' = "none"
    /\ UNCHANGED <<notPairing, statesLock, awaitingInfo, use_polling, watcher, subscription, streamEnded,
                   known_pairing_states, received, lastSignal, chan, rxDropped,
                   polled, notified>>

\* notifications.rs 163-170, 194: one device of the tick, up to the test for
\* a new request. The guard `states` taken at line 166 lives to the end of
\* the loop body: it is released in this step unless the request is new
PollDevice ==
    /\ watcher = "poll"
    /\ pollQueue # <<>>
    /\ awaitingInfo = None
    /\ statesLock = "free"
    /\ pollQueue' = Tail(pollQueue)
    /\ NoSend
    /\ \E result \in PairRequestResults :
          LET device_id == Head(pollQueue)
              checked == check_pairing_request(result)
          IN IF checked = <<>>
             THEN UNCHANGED <<known_pairing_states, polled, notified, statesLock,
                              awaitingInfo>>
             ELSE LET is_requesting == checked[1]
                      was_requesting == WasRequesting(known_pairing_states, device_id)
                  IN IF is_requesting /\ ~was_requesting
                     THEN /\ statesLock' = "poller"
                          /\ awaitingInfo' = Some(device_id)
                          /\ UNCHANGED <<known_pairing_states, polled, notified>>
                     ELSE /\ notified' = IF is_requesting THEN notified
                                         ELSE notified \ {device_id}
                          /\ known_pairing_states' =
                                 MapInsert(known_pairing_states, device_id, is_requesting)
                          /\ polled' = [polled EXCEPT ![device_id] =
                                            Append(@, is_requesting)]
                          /\ UNCHANGED <<statesLock, awaitingInfo>>
    /\ UNCHANGED <<notPairing, use_polling, watcher, subscription, streamEnded, ticks, received,
                   lastSignal, rxDropped>>

\* notifications.rs 174-194: get_device_info(..).await and tx.send(..).await
\* complete, the state is remembered and the guard is dropped
PollInfo ==
    /\ watcher = "poll"
    /\ awaitingInfo # None
    /\ \E info \in DeviceInfoResults :
          LET device_id == awaitingInfo[1]
          IN /\ IF info # <<>>
                THEN Send(PairingNotification(device_id, info[1]))
                ELSE NoSend /\ UNCHANGED notified
             /\ known_pairing_states' = MapInsert(known_pairing_states, device_id, TRUE)
             /\ polled' = [polled EXCEPT ![device_id] = Append(@, TRUE)]
    /\ statesLock' = "free"
    /\ awaitingInfo' = None
    /\ UNCHANGED <<notPairing, use_polling, watcher, subscription, streamEnded, pollQueue,
                   ticks, received, lastSignal, rxDropped>>

\* the owner of the receiver drops it
DropReceiver ==
    /\ ~rxDropped
    /\ rxDropped' = TRUE
    /\ UNCHANGED <<notPairing, statesLock, awaitingInfo, use_polling, watcher, subscription, streamEnded,
                   known_pairing_states, pollQueue, ticks, received, lastSignal, chan,
                   lastSend, polled, notified>>

PairingNext ==
    \/ HandlerNew
    \/ Subscribe
    \/ HandleSignal
    \/ StreamEnds
    \/ ListenReturns
    \/ PollTick
    \/ PollDevice
    \/ PollInfo
    \/ DropReceiver

----------------------------------------------------------------------------
\* ---- conversation signal watcher (plugins/sms/dbus.rs): data ----

\* str::contains
Contains(str, pat) ==
    \E i \in 0..(Len(str) - Len(pat)) : SubSeq(str, i + 1, i + Len(pat)) = pat

Digit(d) == <<"0", "1", "2", "3", "4", "5", "6", "7", "8", "9">>[d + 1]

RECURSIVE NatToString(_)
NatToString(n) ==
    IF n < 10 THEN <<Digit(n)>> ELSE NatToString(n \div 10) \o <<Digit(n % 10)>>

\* i64::to_string
I64ToString(n) == IF n < 0 THEN <<"-">> \o NatToString(0 - n) ELSE NatToString(n)

\* plugins/sms/dbus.rs 533-538; index is 0-based as in the code
extract_string(fields, index) ==
    IF index < Len(fields) /\ fields[index + 1][1] = "Str"
    THEN <<fields[index + 1][2]>> ELSE <<>>

\* plugins/sms/dbus.rs 540-545
extract_i32(fields, index) ==
    IF index < Len(fields) /\ fields[index + 1][1] = "I32"
    THEN <<fields[index + 1][2]>> ELSE <<>>

\* a faulty extract_i64: a 32-bit integer is accepted too
extract_any_int(fields, index) ==
    IF index < Len(fields) /\ fields[index + 1][1] \in {"I32", "I64"}
    THEN <<fields[index + 1][2]>> ELSE <<>>

\* plugins/sms/dbus.rs 547-552
extract_i64(fields, index) ==
    IF index < Len(fields) /\ fields[index + 1][1] = "I64"
    THEN <<fields[index + 1][2]>> ELSE <<>>

\* plugins/sms/dbus.rs 554-565
extract_phone_from_array(fields, index) ==
    IF ~(index < Len(fields) /\ fields[index + 1][1] = "Array") THEN <<>>
    ELSE LET arr == fields[index + 1][2]
         IN IF arr = <<>> \/ arr[1][1] # "Struct" THEN <<>>
            ELSE extract_string(arr[1][2], 0)

\* plugins/sms/dbus.rs 502-529; now is what now_millis() returns
parse_conversation_updated_signal(body, now) ==
    IF body[1] # "Struct" THEN <<>>
    ELSE LET fields_vec == body[2]
             message_type == UnwrapOr(extract_i32(fields_vec, 4), 1)
             message_body == UnwrapOr(extract_string(fields_vec, 1), "")
             phone_number == UnwrapOr(extract_phone_from_array(fields_vec, 2), "Unknown")
             timestamp == UnwrapOr(extract_i64(fields_vec, 3), now)
             thread_id == IF extract_i64(fields_vec, 6) = <<>>
                          THEN <<"u", "n", "k", "n", "o", "w", "n">>
                          ELSE I64ToString(extract_i64(fields_vec, 6)[1])
         IN <<[id |-> thread_id \o <<"_">> \o I64ToString(timestamp),
               thread_id |-> thread_id,
               body |-> message_body,
               address |-> phone_number,
               date |-> timestamp,
               type_ |-> message_type,
               read |-> TRUE]>>

\* a conversationUpdated payload: (event, body, addresses, date, type, read,
\* threadID, ...)
SmsPayload(text, date, type, thread) ==
    <<"Struct", << <<"I32", 1>>, <<"Str", text>>,
                   <<"Array", << <<"Struct", << <<"Str", "+15550100">> >> >> >> >>,
                   date, <<"I32", type>>, <<"I32", 1>>, <<"I64", thread>> >> >>

SmsBodies ==
    {SmsPayload("hi", <<"I64", 5>>, 1, 7),
     SmsPayload("yo", <<"I64", 12>>, 2, 7),
     SmsPayload("hi", <<"Str", "5">>, 1, 7),
     <<"Str", "x">>,
     \* every field of another type: the date and the thread id 32-bit, the
     \* address array empty
     <<"Struct", << <<"I32", 1>>, <<"I32", 0>>, <<"Array", <<>> >>, <<"I32", 5>>,
                    <<"Str", "1">>, <<"I32", 1>>, <<"I32", 7>> >> >>,
     \* the fields from index 2 on missing
     <<"Struct", << <<"I32", 1>>, <<"Str", "hi">> >> >>,
     \* the first address no structure, the rest as sent by the daemon
     <<"Struct", << <<"I32", 1>>, <<"Str", "yo">>, <<"Array", << <<"Str", "+1">> >> >>,
                    <<"I64", 5>>, <<"I32", 2>>, <<"I32", 1>>, <<"I64", 8>> >> >>}

\* "/conversations"
ConversationsSuffix ==
    <<"/", "c", "o", "n", "v", "e", "r", "s", "a", "t", "i", "o", "n", "s">>

\* the items the conversations stream can yield: an Err, or a signal with its
\* object path, member and body
SmsStreamItems ==
    {[ok |-> FALSE, path |-> <<>>, member |-> "", body |-> <<"Str", "x">>]}
    \cup {[ok |-> TRUE, path |-> DevicePath(d) \o ConversationsSuffix,
           member |-> m, body |-> b] :
             d \in PairIds, m \in {"conversationUpdated", "conversationCreated"},
             b \in SmsBodies}

NowValues == {9}

\* the device the SMS window was opened for; the paths of the other device
\* do not contain this id
SmsDeviceId == <<"b">>

\* a faulty SignalMatches: the object path is not compared
AnyPathMatches(item, device_id) ==
    item.ok /\ item.member = "conversationUpdated"

\* plugins/sms/dbus.rs 467-480: the item is a message, its path contains the
\* device id and its member is conversationUpdated
SignalMatches(item, device_id) ==
    /\ item.ok
    /\ Contains(item.path, device_id)
    /\ item.member = "conversationUpdated"

\* a faulty AfterSmsSend: a failed send is only logged
KeepListening(send) == "listen"

\* plugins/sms/dbus.rs 488-491: a failed send leaves the loop
AfterSmsSend(send) == IF send = "failed" THEN "ended" ELSE "listen"

----------------------------------------------------------------------------
\* ---- conversation signal watcher: actions ----

SmsStart ==
    /\ smsWatcher = "connect"
    /\ smsChan = <<>>
    /\ smsRxDropped = FALSE
    /\ smsReceived = 0
    /\ lastSmsSend = "none"
    /\ lastSmsItem = None

\* plugins/sms/dbus.rs 436-462: the connection, the match rule and the stream;
\* the task returns when one of them fails
SmsConnect ==
    /\ smsWatcher = "connect"
    /\ \E established \in BOOLEAN :
          smsWatcher' = IF established THEN "listen" ELSE "ended"
    /\ lastSmsItem' = None
    /\ UNCHANGED <<notSms, smsChan, smsRxDropped, smsReceived, lastSmsSend>>

\* plugins/sms/dbus.rs 466-494: one item of the stream
SmsSignal ==
    /\ smsWatcher = "listen"
    /\ smsReceived < MaxSmsSignals
    /\ smsReceived' = smsReceived + 1
    /\ \E item \in SmsStreamItems, now \in NowValues :
          LET parsed == parse_conversation_updated_signal(item.body, now)
          IN /\ lastSmsItem' = Some(item)
             /\ IF SignalMatches(item, SmsDeviceId) /\ parsed # <<>>
                THEN IF smsRxDropped
                     THEN /\ lastSmsSend' = "failed"
                          /\ smsWatcher' = AfterSmsSend("failed")
                          /\ UNCHANGED smsChan
                     ELSE /\ lastSmsSend' = "ok"
                          /\ smsWatcher' = AfterSmsSend("ok")
                          /\ smsChan' = Append(smsChan, parsed[1])
                ELSE /\ lastSmsSend' = "none"
                     /\ UNCHANGED <<smsWatcher, smsChan>>
    /\ UNCHANGED <<notSms, smsRxDropped>>

\* plugins/sms/dbus.rs 466, 496: stream.next() is None
SmsStreamEnds ==
    /\ smsWatcher = "listen"
    /\ smsWatcher' = "ended"
    /\ lastSmsSend' = "none"
    /\ lastSmsItem' = None
    /\ UNCHANGED <<notSms, smsChan, smsRxDropped, smsReceived>>

\* the stream returned by listen_for_sms_signals_stream is dropped
SmsDropReceiver ==
    /\ ~smsRxDropped
    /\ smsRxDropped' = TRUE
    /\ lastSmsItem' = None
    /\ UNCHANGED <<notSms, smsWatcher, smsChan, smsReceived, lastSmsSend>>

SmsNext ==
    \/ SmsConnect
    \/ SmsSignal
    \/ SmsStreamEnds
    \/ SmsDropReceiver

----------------------------------------------------------------------------
\* ---- SMS window (plugins/sms/app.rs, plugins/sms/dbus.rs): data ----
\*
\* Of SmsWindow's fields the model keeps the two lists, the selected thread and
\* the input. is_loading, search_query, the dialog and emoji fields are read
\* by the view only; contacts stays empty (ContactsLoaded changes contact_name,
\* which no handler reads back).

\* an activeConversations record: (event, body, addresses, date, type, read,
\* threadID, ...)
ConversationPayload(text, phone, date, thread) ==
    <<"Struct", << <<"I32", 1>>, <<"Str", text>>,
                   <<"Array", << <<"Struct", << <<"Str", phone>> >> >> >> >>,
                   date, <<"I32", 1>>, <<"I32", 1>>, thread >> >>

\* plugins/sms/dbus.rs 84-106; now is what now_millis() returns
parse_conversation_variant(variant, now) ==
    IF variant[1] # "Struct" THEN <<>>
    ELSE LET fields_vec == variant[2]
             message_text == UnwrapOr(extract_string(fields_vec, 1), <<>>)
             phone_number == UnwrapOr(extract_phone_from_array(fields_vec, 2),
                                      <<"U", "n", "k", "n", "o", "w", "n">>)
             timestamp == UnwrapOr(extract_i64(fields_vec, 3), now)
             thread_id == IF extract_i64(fields_vec, 6) = <<>>
                          THEN <<"u", "n", "k", "n", "o", "w", "n">>
                          ELSE I64ToString(extract_i64(fields_vec, 6)[1])
         IN <<[thread_id |-> thread_id,
               contact_name |-> phone_number,
               phone_number |-> phone_number,
               last_message |-> message_text,
               timestamp |-> timestamp,
               unread |-> FALSE]>>

\* plugins/sms/dbus.rs 58-62: the records that parse, in the reply's order
RECURSIVE ParseConversations(_, _)
ParseConversations(conv_variants, now) ==
    IF conv_variants = <<>> THEN <<>>
    ELSE ParseConversations(SubSeq(conv_variants, 1, Len(conv_variants) - 1), now)
         \o parse_conversation_variant(conv_variants[Len(conv_variants)], now)

\* plugins/sms/dbus.rs 71-78
InfoConversation(now) ==
    [thread_id |-> <<"i", "n", "f", "o", "_", "1">>,
     contact_name |-> <<"K", "D", "E">>,
     phone_number |-> <<"S", "y", "s", "t", "e", "m">>,
     last_message |-> <<"N", "o", "n", "e">>,
     timestamp |-> now,
     unread |-> FALSE]

\* (faulty variant of fetch_conversations: the information row is pushed also
\* when the session bus cannot be reached)
PlaceholderWithoutBus(busOk, reply, now) ==
    LET parsed == IF busOk /\ reply # <<>> THEN ParseConversations(reply[1], now)
                  ELSE <<>>
    IN IF parsed = <<>> THEN <<InfoConversation(now)>> ELSE parsed

\* plugins/sms/dbus.rs 18-82. busOk: Connection::session() succeeded; reply:
\* None when the activeConversations call or its deserialization failed,
\* Some(records) otherwise
fetch_conversations(busOk, reply, now) ==
    IF ~busOk THEN <<>>
    ELSE LET parsed == IF reply = <<>> THEN <<>>
                       ELSE ParseConversations(reply[1], now)
         IN IF parsed = <<>> THEN <<InfoConversation(now)>> ELSE parsed

PhoneA == <<"1">>
PhoneB == <<"2">>
TextHi == <<"h", "i">>
TextYo == <<"y", "o">>

\* records of an activeConversations reply: one of thread 7, one whose thread
\* id has the wrong type, one that ends before the thread id, and one that is
\* not a structure
RecordOf7 == ConversationPayload(TextHi, PhoneA, <<"I64", 1>>, <<"I64", 7>>)
RecordNoThread == ConversationPayload(TextYo, PhoneB, <<"I64", 5>>, <<"Str", "8">>)
RecordShort ==
    <<"Struct", SubSeq(ConversationPayload(TextHi, PhoneB, <<"I64", 1>>, <<"I64", 8>>)[2], 1, 4)>>
RecordNoStruct == <<"Str", "x">>

\* the replies to activeConversations: an error, or a list of records
ActiveConversationsReplies ==
    {None,
     Some(<<>>),
     Some(<<RecordOf7>>),
     Some(<<RecordNoThread, RecordShort>>),
     Some(<<RecordNoStruct, RecordOf7, RecordNoThread>>)}

\* every list a fetch_conversations() task can return at time now
FetchConversationsResults(now) ==
    {fetch_conversations(busOk, reply, now) :
        busOk \in BOOLEAN, reply \in ActiveConversationsReplies}

\* the conversationUpdated payloads the daemon can emit for the window's device
WindowSignalBodies ==
    {SmsPayload(TextYo, <<"I64", 1>>, 1, 7),
     SmsPayload(TextHi, <<"I64", 5>>, 2, 7),
     SmsPayload(TextYo, <<"I64", 5>>, 1, 8)}

\* the texts UpdateInput can put in the input field
Inputs == {<<>>, <<" ">>, TextHi}

\* the numbers StartChatWithNumber can be given
StartPhones == {<<"+", "1">>}

\* char::is_whitespace
IsWhitespace(c) == c \in {" ", "\t", "\n"}

\* str::trim
RECURSIVE Trim(_)
Trim(str) ==
    IF str = <<>> THEN <<>>
    ELSE IF IsWhitespace(str[1]) THEN Trim(Tail(str))
    ELSE IF IsWhitespace(str[Len(str)]) THEN Trim(SubSeq(str, 1, Len(str) - 1))
    ELSE str

\* one step of the stable sort: m goes after the elements whose date is not larger
RECURSIVE InsertByDate(_, _)
InsertByDate(sorted, m) ==
    IF sorted = <<>> \/ sorted[Len(sorted)].date <= m.date THEN Append(sorted, m)
    ELSE Append(InsertByDate(SubSeq(sorted, 1, Len(sorted) - 1), m),
                sorted[Len(sorted)])

\* a faulty SortByDate: the list is left in push order
PushOrder(msgs) == msgs

\* messages.sort_by_key(|m| m.date): app.rs 210, 335
RECURSIVE SortByDate(_)
SortByDate(msgs) ==
    IF msgs = <<>> THEN <<>>
    ELSE InsertByDate(SortByDate(SubSeq(msgs, 1, Len(msgs) - 1)), msgs[Len(msgs)])

\* one step of the stable sort: c goes after the elements whose timestamp is
\* not smaller
RECURSIVE InsertByTimestamp(_, _)
InsertByTimestamp(sorted, c) ==
    IF sorted = <<>> \/ sorted[Len(sorted)].timestamp >= c.timestamp
    THEN Append(sorted, c)
    ELSE Append(InsertByTimestamp(SubSeq(sorted, 1, Len(sorted) - 1), c),
                sorted[Len(sorted)])

\* conversations.sort_by(|a, b| b.timestamp.cmp(&a.timestamp)): app.rs 226, 245, 340
RECURSIVE SortByTimestampDesc(_)
SortByTimestampDesc(convs) ==
    IF convs = <<>> THEN <<>>
    ELSE InsertByTimestamp(SortByTimestampDesc(SubSeq(convs, 1, Len(convs) - 1)),
                           convs[Len(convs)])

\* conversations.iter().find(|c| c.thread_id == thread_id): the index of the
\* first match
FindConversation(convs, thread_id) ==
    LET hits == {i \in 1..Len(convs) : convs[i].thread_id = thread_id}
    IN IF hits = {} THEN None
       ELSE Some(CHOOSE i \in hits : \A j \in hits : i <= j)

IsDigit(c) == c \in {"0", "1", "2", "3", "4", "5", "6", "7", "8", "9"}

\* utils::phone_numbers_match (see app.rs 262-263): the two numbers agree up
\* to formatting
phone_numbers_match(a, b) == SelectSeq(a, IsDigit) = SelectSeq(b, IsDigit)

\* the values a later now_millis() of the same handler can return
Later(t) == {u \in {t, t + 1} : u <= MaxClock}

\* a faulty SendPreconditions: a blank input is sent like any other
BlankIsSent(input, selected, convs) ==
    /\ input # <<>>
    /\ selected # None
    /\ FindConversation(convs, selected[1]) # None

\* app.rs 296-309: send_message goes on when none of the early returns is taken
SendPreconditions(input, selected, convs) ==
    /\ Trim(input) # <<>>
    /\ selected # None
    /\ FindConversation(convs, selected[1]) # None

\* app.rs 324-332; id_now and date_now are the two now_millis() of the literal
OptimisticMessage(thread_id, message, phone, id_now, date_now) ==
    [id |-> <<"s", "e", "n", "d", "i", "n", "g", "_">> \o I64ToString(id_now),
     thread_id |-> thread_id,
     body |-> message,
     address |-> phone,
     date |-> date_now,
     type_ |-> 2,
     read |-> TRUE]

\* a faulty UpdateConversation: the preview is updated, the timestamp is not
PreviewOnly(convs, i, message, now) ==
    SortByTimestampDesc([convs EXCEPT ![i].last_message = message])

\* app.rs 338-340: the conversation found at index i gets the sent text and
\* the time, and the list is sorted again
UpdateConversation(convs, i, message, now) ==
    SortByTimestampDesc([convs EXCEPT ![i].last_message = message,
                                      ![i].timestamp = now])

\* a faulty ReceiveIntoMessages: the message is shown whatever thread is
\* selected
ReceiveAnyThread(msgs, selected, msg) ==
    IF ~(\E k \in 1..Len(msgs) : msgs[k].id = msg.id)
    THEN SortByDate(Append(msgs, msg))
    ELSE msgs

\* app.rs 206-217: the message list after MessageReceived(msg)
ReceiveIntoMessages(msgs, selected, msg) ==
    IF selected = Some(msg.thread_id) /\ ~(\E k \in 1..Len(msgs) : msgs[k].id = msg.id)
    THEN SortByDate(Append(msgs, msg))
    ELSE msgs

\* app.rs 219-226: the conversation list after MessageReceived(msg)
ReceiveIntoConversations(convs, msg) ==
    LET found == FindConversation(convs, msg.thread_id)
    IN SortByTimestampDesc(
         IF found = None THEN convs
         ELSE [convs EXCEPT ![found[1]].last_message = msg.body,
                            ![found[1]].timestamp = msg.date])

\* app.rs 242-247
on_conversations_loaded(loaded) == SortByTimestampDesc(loaded)

\* app.rs 374-376: the index of the first conversation with that number
FindByPhone(convs, phone) ==
    LET hits == {i \in 1..Len(convs) : phone_numbers_match(convs[i].phone_number, phone)}
    IN IF hits = {} THEN None
       ELSE Some(CHOOSE i \in hits : \A j \in hits : i <= j)

\* app.rs 386-400; id_now and ts_now are the two now_millis() of the function.
\* contacts is empty in this model: contact_name falls back to the number
NewConversation(phone, id_now, ts_now) ==
    [thread_id |-> <<"n", "e", "w", "_">> \o I64ToString(id_now),
     contact_name |-> phone,
     phone_number |-> phone,
     last_message |-> <<"N", "e", "w">>,
     timestamp |-> ts_now,
     unread |-> FALSE]

\* a faulty AfterCli: the fallback runs whatever the CLI reported
AlwaysFallback(cli_ok) == "dbus"

\* plugins/sms/dbus.rs 159-164: send_sms returns after a successful CLI
\* attempt and goes on to send_via_dbus otherwise
AfterCli(cli_ok) == IF cli_ok THEN "done" ELSE "dbus"

\* a faulty AfterSendTask: a failed send takes the placeholder back
DropPlaceholderOnFailure(msgs, task) ==
    IF task.result = "failed"
    THEN SelectSeq(msgs, LAMBDA m : m.body # task.message)
    ELSE msgs

\* app.rs 348-354: the spawned task awaits send_sms and finishes; nothing is
\* reported back to the window
AfterSendTask(msgs, task) == msgs

----------------------------------------------------------------------------
\* ---- SMS window: actions ----

\* app.rs 48-89: init, which starts the first fetch_conversations()
WindowStart ==
    /\ conversations = <<>>
    /\ messages = <<>>
    /\ selected_thread = None
    /\ message_input = <<>>
    /\ clock = 2
    /\ loading = 1
    /\ pendingSelect = <<>>
    /\ sendTasks = <<>>
    /\ sendOutcome = "none"

\* a millisecond passes
Tick ==
    /\ clock < MaxClock
    /\ clock' = clock + 1
    /\ sendOutcome' = "none"
    /\ UNCHANGED <<notWindow, conversations, messages, selected_thread, message_input,
                   loading, pendingSelect, sendTasks>>

\* app.rs 186-187, 234-240: the 30 s timer starts another fetch
LoadConversations ==
    /\ loading < MaxLoads
    /\ loading' = loading + 1
    /\ sendOutcome' = "none"
    /\ UNCHANGED <<notWindow, conversations, messages, selected_thread, message_input,
                   clock, pendingSelect, sendTasks>>

\* app.rs 95-97: a fetch_conversations() task finishes and its list is handled
ConversationsLoaded ==
    /\ loading > 0
    /\ loading' = loading - 1
    /\ \E loaded \in FetchConversationsResults(clock) :
          conversations' = on_conversations_loaded(loaded)
    /\ sendOutcome' = "none"
    /\ UNCHANGED <<notWindow, messages, selected_thread, message_input, clock,
                   pendingSelect, sendTasks>>

\* app.rs 277-288: select_thread. The requestConversation it spawns makes the
\* daemon emit conversationUpdated signals, which arrive as MessageReceived
select_thread(thread_id) ==
    /\ selected_thread' = Some(thread_id)
    /\ messages' = <<>>

\* app.rs 101-103: the user picks a conversation of the list
SelectThread ==
    /\ \E i \in 1..Len(conversations) : select_thread(conversations[i].thread_id)
    /\ sendOutcome' = "none"
    /\ UNCHANGED <<notWindow, conversations, message_input, clock, loading,
                   pendingSelect, sendTasks>>

\* app.rs 101-103: the SelectThread queued by start_chat_with_number arrives
SelectQueued ==
    /\ pendingSelect # <<>>
    /\ select_thread(Head(pendingSelect))
    /\ pendingSelect' = Tail(pendingSelect)
    /\ sendOutcome' = "none"
    /\ UNCHANGED <<notWindow, conversations, message_input, clock, loading,
                   sendTasks>>

\* app.rs 104-106
UpdateInput ==
    /\ \E text \in Inputs : message_input' = text
    /\ sendOutcome' = "none"
    /\ UNCHANGED <<notWindow, conversations, messages, selected_thread, clock,
                   loading, pendingSelect, sendTasks>>

\* app.rs 290-357: send_message
SendMessage ==
    /\ Len(sendTasks) < MaxSends
    /\ Len(messages) < MaxMessages
    /\ IF ~SendPreconditions(message_input, selected_thread, conversations)
       THEN /\ sendOutcome' = "ignored"
            /\ UNCHANGED <<conversations, messages, message_input, clock, sendTasks>>
       ELSE \E date_now \in Later(clock) : \E ts_now \in Later(date_now) :
              LET thread_id == selected_thread[1]
                  i == FindConversation(conversations, thread_id)[1]
                  phone == conversations[i].phone_number
                  optimistic_msg == OptimisticMessage(thread_id, message_input, phone,
                                                      clock, date_now)
              IN /\ messages' = SortByDate(Append(messages, optimistic_msg))
                 /\ conversations' = UpdateConversation(conversations, i,
                                                        message_input, ts_now)
                 /\ message_input' = <<>>
                 /\ sendTasks' = Append(sendTasks,
                                        [phone_number |-> phone,
                                         message |-> message_input,
                                         pc |-> "spawned",
                                         attempts |-> <<>>,
                                         cli |-> "pending",
                                         bus |-> "unused",
                                         result |-> "pending"])
                 /\ clock' = ts_now
                 /\ sendOutcome' = "spawned"
    /\ UNCHANGED <<notWindow, selected_thread, loading, pendingSelect>>

\* app.rs 93, 198-232: SignalReceived(MessageReceived(msg)); msg is what the
\* watcher parsed from a conversationUpdated signal
MessageReceived ==
    /\ Len(messages) < MaxMessages
    /\ \E body \in WindowSignalBodies :
          LET msg == parse_conversation_updated_signal(body, clock)[1]
          IN /\ messages' = ReceiveIntoMessages(messages, selected_thread, msg)
             /\ conversations' = ReceiveIntoConversations(conversations, msg)
    /\ sendOutcome' = "none"
    /\ UNCHANGED <<notWindow, selected_thread, message_input, clock, loading,
                   pendingSelect, sendTasks>>

\* app.rs 136-138, 370-407: start_chat_with_number
StartChatWithNumber ==
    /\ Len(conversations) < MaxConversations
    /\ Len(pendingSelect) < MaxPending
    /\ sendOutcome' = "none"
    /\ \E phone \in StartPhones :
          LET found == FindByPhone(conversations, phone)
          IN IF found # None
             THEN /\ pendingSelect' = Append(pendingSelect,
                                             conversations[found[1]].thread_id)
                  /\ UNCHANGED <<conversations, clock>>
             ELSE \E ts_now \in Later(clock) :
                    LET new_conversation == NewConversation(phone, clock, ts_now)
                    IN /\ conversations' = <<new_conversation>> \o conversations
                       /\ pendingSelect' = Append(pendingSelect,
                                                  new_conversation.thread_id)
                       /\ clock' = ts_now
    /\ UNCHANGED <<notWindow, messages, selected_thread, message_input, loading,
                   sendTasks>>

\* plugins/sms/dbus.rs 159, 167-196: a spawned task runs kdeconnect-cli
SendViaCli ==
    /\ \E k \in 1..Len(sendTasks) : \E cli_ok \in BOOLEAN :
          LET task == sendTasks[k]
              after == [task EXCEPT
                          !.attempts = Append(@, [via |-> "cli",
                                                  phone |-> task.phone_number,
                                                  message |-> task.message]),
                          !.pc = AfterCli(cli_ok),
                          !.cli = IF cli_ok THEN "ok" ELSE "failed",
                          !.result = IF cli_ok THEN "sent" ELSE "pending"]
          IN /\ task.pc = "spawned"
             /\ sendTasks' = [sendTasks EXCEPT ![k] = after]
             /\ messages' = IF after.pc = "done" THEN AfterSendTask(messages, after)
                            ELSE messages
    /\ sendOutcome' = "none"
    /\ UNCHANGED <<notWindow, conversations, selected_thread, message_input, clock,
                   loading, pendingSelect>>

\* plugins/sms/dbus.rs 164, 198-237: the fallback; sendWithoutConversation is
\* called when the session connection could be opened
SendViaDbus ==
    /\ \E k \in 1..Len(sendTasks) : \E connected \in BOOLEAN, call_ok \in BOOLEAN :
          LET task == sendTasks[k]
              after == [task EXCEPT
                          !.attempts = IF connected
                                       THEN Append(@, [via |-> "dbus",
                                                       phone |-> task.phone_number,
                                                       message |-> task.message])
                                       ELSE @,
                          !.pc = "done",
                          !.bus = IF connected THEN "ok" ELSE "failed",
                          !.result = IF connected /\ call_ok THEN "sent" ELSE "failed"]
          IN /\ task.pc = "dbus"
             /\ sendTasks' = [sendTasks EXCEPT ![k] = after]
             /\ messages' = AfterSendTask(messages, after)
    /\ sendOutcome' = "none"
    /\ UNCHANGED <<notWindow, conversations, selected_thread, message_input, clock,
                   loading, pendingSelect>>

\* app.rs 352-354: send_sms has returned and the spawned task ends
SendTaskEnds ==
    /\ \E k \in 1..Len(sendTasks) :
          /\ sendTasks[k].pc = "done"
          /\ sendTasks' = SubSeq(sendTasks, 1, k - 1) \o SubSeq(sendTasks, k + 1, Len(sendTasks))
    /\ sendOutcome' = "none"
    /\ UNCHANGED <<notWindow, conversations, messages, selected_thread, message_input,
                   clock, loading, pendingSelect>>

WindowNext ==
    \/ Tick
    \/ LoadConversations
    \/ ConversationsLoaded
    \/ SelectThread
    \/ SelectQueued
    \/ UpdateInput
    \/ SendMessage
    \/ MessageReceived
    \/ StartChatWithNumber
    \/ SendViaCli
    \/ SendViaDbus
    \/ SendTaskEnds

----------------------------------------------------------------------------
\* ---- notification action bridge (notifications.rs): data ----

\* ids the notification daemon hands out
NotificationIds == {41, 42}

\* "default" and "open" are the actions the notification carries
\* (notifications.rs 417); a daemon may report any key
ActionKeys == {"default", "open", "dismiss"}

\* the items the ActionInvoked stream can yield: an Err, a signal with the
\* (us) body, or a signal with another body
ActionInvokedItems ==
    {[ok |-> FALSE, body |-> <<"Str", "x">>], [ok |-> TRUE, body |-> <<"Str", "x">>]}
    \cup {[ok |-> TRUE, body |-> <<"US", id, key>>] :
             id \in NotificationIds, key \in ActionKeys}

\* the items the NotificationClosed stream can yield; reason 2 is "dismissed
\* by the user"
NotificationClosedItems ==
    {[ok |-> FALSE, body |-> <<"Str", "x">>], [ok |-> TRUE, body |-> <<"Str", "x">>]}
    \cup {[ok |-> TRUE, body |-> <<"UU", id, 2>>] : id \in NotificationIds}

\* notifications.rs 469: body.deserialize::<(u32, String)>()
DeserializeActionInvoked(body) ==
    IF body[1] = "US" THEN <<[id |-> body[2], action |-> body[3]]>> ELSE <<>>

\* notifications.rs 503: body.deserialize::<(u32, u32)>()
DeserializeNotificationClosed(body) ==
    IF body[1] = "UU" THEN <<[id |-> body[2], reason |-> body[3]]>> ELSE <<>>

\* a faulty ActionMatches: every action key of the notification launches
AnyActionMatches(id, action, recorded) == id = recorded

\* a faulty ActionMatches: the id is not compared
AnyIdMatches(id, action, recorded) == action = "default" \/ action = "open"

\* notifications.rs 472
ActionMatches(id, action, recorded) ==
    id = recorded /\ (action = "default" \/ action = "open")

\* a faulty ClosedMatches: the close of the notification is not recognised
ClosedNeverMatches(id, recorded) == FALSE

\* notifications.rs 504
ClosedMatches(id, recorded) == id = recorded

\* notifications.rs 477-490: xdg-open is spawned; when that fails
\* cosmic-kdeconnect-settings is spawned and its result is dropped
LaunchFollowUp(xdg_ok, direct_ok) ==
    IF xdg_ok
    THEN <<[command |-> "xdg-open", ok |-> TRUE]>>
    ELSE <<[command |-> "xdg-open", ok |-> FALSE],
           [command |-> "cosmic-kdeconnect-settings", ok |-> direct_ok]>>

----------------------------------------------------------------------------
\* ---- notification action bridge: actions ----

BridgeStart ==
    /\ bridgePc = "start"
    /\ notification_id = None
    /\ actionStream = <<>>
    /\ closeStream = <<>>
    /\ launches = <<>>
    /\ brokeOn = "none"
    /\ handled = None
    /\ terminalEmitted = FALSE

\* notifications.rs 399-435: the connection, the proxy and the Notify call;
\* each failure returns Err
BridgeNotify ==
    /\ bridgePc = "start"
    /\ \E published \in BOOLEAN, id \in NotificationIds :
          IF published
          THEN /\ bridgePc' = "notified"
               /\ notification_id' = Some(id)
          ELSE /\ bridgePc' = "failed"
               /\ UNCHANGED notification_id
    /\ handled' = None
    /\ UNCHANGED <<notBridge, actionStream, closeStream, launches, brokeOn,
                   terminalEmitted>>

\* notifications.rs 443-459: the two match rules and their streams, created
\* after Notify has returned; each failure returns Err
BridgeSubscribe ==
    /\ bridgePc = "notified"
    /\ \E subscribed \in BOOLEAN :
          bridgePc' = IF subscribed THEN "waiting" ELSE "failed"
    /\ handled' = None
    /\ UNCHANGED <<notBridge, notification_id, actionStream, closeStream, launches,
                   brokeOn, terminalEmitted>>

\* the signals that end the published notification: its close, and its
\* actions "default" and "open"
IsTerminal(item) ==
    /\ item.ok
    /\ \/ item.body[1] = "UU" /\ item.body[2] = notification_id[1]
       \/ /\ item.body[1] = "US"
          /\ item.body[2] = notification_id[1]
          /\ item.body[3] \in {"default", "open"}

\* a faulty Delivered: a stream also yields what was emitted before it was
\* created
DeliveredAlways(stream, item) == Append(stream, item)

\* notifications.rs 450, 459: a MessageStream yields the signals that arrive
\* once it exists; there is no stream yet when the signal is emitted between
\* the Notify call and for_match_rule
Delivered(stream, item) ==
    IF bridgePc = "waiting" THEN Append(stream, item) ELSE stream

\* the notification daemon emits ActionInvoked; it can do so as soon as it has
\* answered Notify
EmitActionInvoked ==
    /\ bridgePc \in {"notified", "waiting"}
    /\ Len(actionStream) < MaxStream
    /\ \E item \in ActionInvokedItems :
          /\ actionStream' = Delivered(actionStream, item)
          /\ terminalEmitted' = (terminalEmitted \/ IsTerminal(item))
    /\ handled' = None
    /\ UNCHANGED <<notBridge, bridgePc, notification_id, closeStream, launches, brokeOn>>

\* the notification daemon emits NotificationClosed
EmitNotificationClosed ==
    /\ bridgePc \in {"notified", "waiting"}
    /\ Len(closeStream) < MaxStream
    /\ \E item \in NotificationClosedItems :
          /\ closeStream' = Delivered(closeStream, item)
          /\ terminalEmitted' = (terminalEmitted \/ IsTerminal(item))
    /\ handled' = None
    /\ UNCHANGED <<notBridge, bridgePc, notification_id, actionStream, launches, brokeOn>>

\* notifications.rs 464-496: the select! branch of the ActionInvoked stream
HandleActionInvoked ==
    /\ bridgePc = "waiting"
    /\ actionStream # <<>>
    /\ actionStream' = Tail(actionStream)
    /\ handled' = Some([stream |-> "action", item |-> Head(actionStream)])
    /\ LET item == Head(actionStream)
           parsed == IF item.ok THEN DeserializeActionInvoked(item.body) ELSE <<>>
       IN IF /\ parsed # <<>>
             /\ ActionMatches(parsed[1].id, parsed[1].action, notification_id[1])
          THEN /\ \E xdg_ok \in BOOLEAN, direct_ok \in BOOLEAN :
                     launches' = launches \o LaunchFollowUp(xdg_ok, direct_ok)
               /\ bridgePc' = "returned"
               /\ brokeOn' = "action"
          ELSE UNCHANGED <<launches, bridgePc, brokeOn>>
    /\ UNCHANGED <<notBridge, notification_id, closeStream, terminalEmitted>>

\* notifications.rs 498-511: the select! branch of the NotificationClosed
\* stream
HandleNotificationClosed ==
    /\ bridgePc = "waiting"
    /\ closeStream # <<>>
    /\ closeStream' = Tail(closeStream)
    /\ handled' = Some([stream |-> "closed", item |-> Head(closeStream)])
    /\ LET item == Head(closeStream)
           parsed == IF item.ok THEN DeserializeNotificationClosed(item.body) ELSE <<>>
       IN IF parsed # <<>> /\ ClosedMatches(parsed[1].id, notification_id[1])
          THEN /\ bridgePc' = "returned"
               /\ brokeOn' = "closed"
          ELSE UNCHANGED <<bridgePc, brokeOn>>
    /\ UNCHANGED <<notBridge, notification_id, actionStream, launches, terminalEmitted>>

\* notifications.rs 463-464, 498: the bus connection closes, both streams
\* yield None, every branch of the select! is disabled and, having no else
\* branch, it panics
BridgeStreamsEnd ==
    /\ bridgePc = "waiting"
    /\ actionStream = <<>>
    /\ closeStream = <<>>
    /\ bridgePc' = "panicked"
    /\ handled' = None
    /\ UNCHANGED <<notBridge, notification_id, actionStream, closeStream, launches,
                   brokeOn, terminalEmitted>>

BridgeNext ==
    \/ BridgeNotify
    \/ BridgeSubscribe
    \/ EmitActionInvoked
    \/ EmitNotificationClosed
    \/ HandleActionInvoked
    \/ HandleNotificationClosed
    \/ BridgeStreamsEnd

----------------------------------------------------------------------------
\* ---- connection pool (dbus.rs 26-51): data ----

\* tasks that call get_connection(): fetch_devices and the other bus
\* functions of dbus.rs run as independent tasks of the runtime
Callers == {"t1", "t2"}

\* the shutdown paths that call cleanup(): the ctrlc handler (main.rs
\* 622-635) and Drop for KdeConnectApplet (main.rs 603-616)
Cleaners == {"signal", "drop"}

\* a faulty LockAfterCheck: the guard is released before the connection is
\* established
ReleaseBeforeConnect(task, slot) == "free"

\* dbus.rs 32-39: the MutexGuard `pool` lives until get_connection returns,
\* so it is released by the return at line 36 and kept over line 39
LockAfterCheck(task, slot) == IF slot # None THEN "free" ELSE task

\* a faulty SlotAfterSession: a default is stored when the session fails
StoreDefault(slot, session) == IF session = None THEN Some(0) ELSE session

\* dbus.rs 39-40: `?` returns before the assignment when the session could
\* not be established
SlotAfterSession(slot, session) == IF session = None THEN slot ELSE session

\* a faulty LogAfterTake: the line is written by every cleanup
LogAlways(slot, log) == log + 1

\* dbus.rs 47-50: the connection is dropped and the line written only when
\* the slot held one
LogAfterTake(slot, log) == IF slot # None THEN log + 1 ELSE log

----------------------------------------------------------------------------
\* ---- connection pool: actions ----

PoolStart ==
    /\ pool = None
    /\ poolLock = "free"
    /\ callerPc = [t \in Callers |-> "idle"]
    /\ callerResult = [t \in Callers |-> <<"None">>]
    /\ calls = [t \in Callers |-> 0]
    /\ cleanerPc = [c \in Cleaners |-> "idle"]
    /\ connectionsMade = 0
    /\ closedLog = 0
    /\ exited = FALSE

\* dbus.rs 32: CONNECTION_POOL.lock().await
GetConnectionLock(t) ==
    /\ ~exited
    /\ callerPc[t] \in {"idle", "returned"}
    /\ calls[t] < MaxCalls
    /\ poolLock = "free"
    /\ poolLock' = t
    /\ callerPc' = [callerPc EXCEPT ![t] = "locked"]
    /\ calls' = [calls EXCEPT ![t] = @ + 1]
    /\ UNCHANGED <<notPool, pool, callerResult, cleanerPc, connectionsMade, closedLog, exited>>

\* dbus.rs 34-37: the slot is read; a connection found there is cloned and
\* returned
GetConnectionCheck(t) ==
    /\ ~exited
    /\ callerPc[t] = "locked"
    /\ poolLock' = LockAfterCheck(t, pool)
    /\ IF pool # None
       THEN /\ callerPc' = [callerPc EXCEPT ![t] = "returned"]
            /\ callerResult' = [callerResult EXCEPT ![t] = <<"Ok", pool[1]>>]
       ELSE /\ callerPc' = [callerPc EXCEPT ![t] = "connecting"]
            /\ UNCHANGED callerResult
    /\ UNCHANGED <<notPool, pool, calls, cleanerPc, connectionsMade, closedLog, exited>>

\* dbus.rs 39-41: Connection::session().await completes
GetConnectionSession(t) ==
    /\ ~exited
    /\ callerPc[t] = "connecting"
    /\ \E established \in BOOLEAN :
          LET session == IF established THEN Some(connectionsMade + 1) ELSE None
          IN /\ connectionsMade' = IF established THEN connectionsMade + 1 ELSE connectionsMade
             /\ pool' = SlotAfterSession(pool, session)
             /\ callerResult' = [callerResult EXCEPT ![t] =
                    IF established THEN <<"Ok", connectionsMade + 1>> ELSE <<"Err">>]
    /\ poolLock' = IF poolLock = t THEN "free" ELSE poolLock
    /\ callerPc' = [callerPc EXCEPT ![t] = "returned"]
    /\ UNCHANGED <<notPool, calls, cleanerPc, closedLog, exited>>

\* dbus.rs 46, reached from main.rs 608-612 or 626-630
CleanupLock(c) ==
    /\ ~exited
    /\ cleanerPc[c] = "idle"
    /\ poolLock = "free"
    /\ poolLock' = c
    /\ cleanerPc' = [cleanerPc EXCEPT ![c] = "locked"]
    /\ UNCHANGED <<notPool, pool, callerPc, callerResult, calls, connectionsMade, closedLog, exited>>

\* dbus.rs 47-51
CleanupTake(c) ==
    /\ ~exited
    /\ cleanerPc[c] = "locked"
    /\ pool' = None
    /\ closedLog' = LogAfterTake(pool, closedLog)
    /\ poolLock' = "free"
    /\ cleanerPc' = [cleanerPc EXCEPT ![c] = "done"]
    /\ UNCHANGED <<notPool, callerPc, callerResult, calls, connectionsMade, exited>>

\* main.rs 633: std::process::exit(0) after the handler's cleanup; after the
\* Drop path the process ends when main returns
ProcessExit ==
    /\ ~exited
    /\ \E c \in Cleaners : cleanerPc[c] = "done"
    /\ exited' = TRUE
    /\ UNCHANGED <<notPool, pool, poolLock, callerPc, callerResult, calls, cleanerPc,
                   connectionsMade, closedLog>>

PoolNext ==
    \/ \E t \in Callers : GetConnectionLock(t)
    \/ \E t \in Callers : GetConnectionCheck(t)
    \/ \E t \in Callers : GetConnectionSession(t)
    \/ \E c \in Cleaners : CleanupLock(c)
    \/ \E c \in Cleaners : CleanupTake(c)
    \/ ProcessExit

----------------------------------------------------------------------------
\* ---- the fetches as functions of the daemon's answers ----
\* (src/src/dbus.rs 53-233, 904-982)

\* what a D-Bus call can come back with: an error, or a value of some type
CallErr == <<"Err">>

\* dbus.rs 161-178 and 964-982: Ok only for a string value
get_device_property(answer) ==
    IF answer[1] = "Str" THEN Some(answer[2]) ELSE None

\* dbus.rs 180-197: Ok only for a boolean value
get_device_property_bool(answer) ==
    IF answer[1] = "Bool" THEN Some(answer[2]) ELSE None

\* dbus.rs 199-216: Ok only for an i32 value
get_device_property_int(answer) ==
    IF answer[1] = "I32" THEN Some(answer[2]) ELSE None

\* dbus.rs 944-961: an error only when the call fails; Ok(0) for a value of
\* another type
get_plugin_property_int(answer) ==
    IF answer = CallErr THEN None
    ELSE IF answer[1] = "I32" THEN Some(answer[2]) ELSE Some(0)

\* dbus.rs 904-921: an error only when the call fails; Ok(false) for a value
\* of another type
get_plugin_property_bool(answer) ==
    IF answer = CallErr THEN None
    ELSE IF answer[1] = "Bool" THEN Some(answer[2]) ELSE Some(FALSE)

\* dbus.rs 218-233: false when the call or the deserialization fails
check_plugin(answer) ==
    IF answer[1] = "Bool" THEN answer[2] ELSE FALSE

\* (faulty variant of PluginValues: the plugin's properties are read whether
\* or not the device has the plugin)
ReadRegardless(has_plugin, first, second) == <<first, second>>

\* dbus.rs 97-104 and 108-115: the two properties of a plugin, read only when
\* the device has the plugin
PluginValues(has_plugin, first, second) ==
    IF has_plugin THEN <<first, second>> ELSE <<None, None>>

\* dbus.rs 76-146: the Device built for one reported id from the daemon's
\* answers for it. Of the thirteen capability flags, which are all read the
\* same way, has_battery, has_share and has_sftp are kept.
BuildDevice(device_id, answers) ==
    LET name == UnwrapOr(get_device_property(answers.name), "Unknown")
        is_reachable == UnwrapOr(get_device_property_bool(answers.isReachable), FALSE)
        is_paired == UnwrapOr(get_device_property_bool(answers.isPaired), FALSE)
        device_type == UnwrapOr(get_device_property(answers.type), "phone")
        has_battery == check_plugin(answers.battery)
        has_share == check_plugin(answers.share)
        has_sftp == check_plugin(answers.sftp)
        battery == PluginValues(has_battery,
                                get_plugin_property_int(answers.charge),
                                get_plugin_property_bool(answers.isCharging))
        has_connectivity == check_plugin(answers.connectivity)
        connectivity == PluginValues(has_connectivity,
                                     get_plugin_property_int(answers.strength),
                                     get_device_property(answers.networkType))
        pairing_requests ==
            UnwrapOr(get_device_property_int(answers.pairingRequestsCount), 0)
    IN [id |-> device_id,
        name |-> name,
        device_type |-> device_type,
        is_reachable |-> is_reachable,
        is_paired |-> is_paired,
        battery_level |-> battery[1],
        is_charging |-> battery[2],
        has_battery |-> has_battery,
        has_share |-> has_share,
        has_sftp |-> has_sftp,
        pairing_requests |-> pairing_requests,
        signal_strength |-> connectivity[1],
        network_type |-> connectivity[2],
        available_players |-> <<>>,
        current_player |-> None,
        media_info |-> None]

\* dbus.rs 53-159. conn_ok: get_connection() succeeded; reply: None when the
\* devices call or its deserialization failed, Some(ids) otherwise; answers:
\* per id, what the daemon answers to the reads about it
FetchDevices(conn_ok, reply, answers) ==
    IF conn_ok /\ reply # None
    THEN [i \in 1..Len(reply[1]) |-> BuildDevice(reply[1][i], answers[reply[1][i]])]
    ELSE <<>>

\* a device that answers everything
AnswersAll ==
    [name |-> <<"Str", "Pixel">>, isReachable |-> <<"Bool", TRUE>>,
     isPaired |-> <<"Bool", TRUE>>, type |-> <<"Str", "tablet">>,
     battery |-> <<"Bool", TRUE>>, share |-> <<"Bool", FALSE>>,
     sftp |-> <<"Bool", TRUE>>, charge |-> <<"I32", 80>>,
     isCharging |-> <<"Bool", TRUE>>, connectivity |-> <<"Bool", TRUE>>,
     strength |-> <<"I32", 3>>, networkType |-> <<"Str", "LTE">>,
     pairingRequestsCount |-> <<"I32", 1>>]

\* a device none of whose reads succeeds
AnswersNone == [k \in DOMAIN AnswersAll |-> CallErr]

\* device "abc123" of the scenario: reachable, paired, sftp but not share, and
\* neither the battery nor the connectivity plugin, although their objects
\* would answer
AnswersNoPlugins ==
    [AnswersAll EXCEPT !.battery = <<"Bool", FALSE>>,
                       !.connectivity = <<"Bool", FALSE>>]

\* the hasPlugin calls fail, everything else answers
AnswersPluginCallsFail ==
    [AnswersAll EXCEPT !.battery = CallErr, !.connectivity = CallErr,
                       !.share = CallErr, !.sftp = CallErr]

\* the plugins are there but their properties fail or have another type, and
\* so have the name, the flags and the request count
AnswersWrongTypes ==
    [AnswersAll EXCEPT !.name = <<"I32", 1>>, !.isReachable = <<"Str", "yes">>,
                       !.isPaired = CallErr, !.type = CallErr,
                       !.charge = CallErr, !.isCharging = <<"I32", 1>>,
                       !.strength = <<"Str", "3">>, !.networkType = <<"I32", 4>>,
                       !.pairingRequestsCount = <<"Str", "1">>]

DeviceAnswers ==
    {AnswersAll, AnswersNone, AnswersNoPlugins, AnswersPluginCallsFail,
     AnswersWrongTypes}

\* the replies to the daemon's devices call: an error, or a list of ids
DevicesReplies == {None} \cup {Some(ids) : ids \in IdLists}

\* the instants now_millis() can return
FetchInstants == 0..MaxClock

FetchStart == devicesCall = None /\ conversationsCall = None

\* one call of dbus::fetch_devices(), start to end. What it returns depends
\* on nothing but the answers it gets, so that one call stands for every call.
CallFetchDevices ==
    /\ devicesCall = None
    /\ \E conn_ok \in BOOLEAN, reply \in DevicesReplies,
          answers \in [DeviceIds -> DeviceAnswers] :
          devicesCall' = Some([conn_ok |-> conn_ok, reply |-> reply,
                               answers |-> answers,
                               returned |-> FetchDevices(conn_ok, reply, answers)])
    /\ UNCHANGED <<conversationsCall, notFetch>>

\* one call of plugins::sms::dbus::fetch_conversations(), start to end
CallFetchConversations ==
    /\ conversationsCall = None
    /\ \E busOk \in BOOLEAN, reply \in ActiveConversationsReplies,
          now \in FetchInstants :
          conversationsCall' = Some([busOk |-> busOk, reply |-> reply, now |-> now,
                                     returned |-> fetch_conversations(busOk, reply, now)])
    /\ UNCHANGED <<devicesCall, notFetch>>

FetchNext ==
    \/ CallFetchDevices
    \/ CallFetchConversations

----------------------------------------------------------------------------
\* ---- the pairing-notifications subscription (main.rs 24-28, 52-70, 569-600) ----

\* the notifications the listener can send: one is sent only for a device
\* whose get_device_info succeeded (notifications.rs 118-128)
ListenerNotifications ==
    {PairingNotification(id, result[1]) :
        id \in PairIds, result \in DeviceInfoResults \ {<<>>}}

\* main.rs 589-593
PairingRequestReceived(notification) ==
    <<"PairingRequestReceived", notification.device_id, notification.device_name,
      notification.device_type>>

\* a faulty UnfoldWithoutReceiver: the stream goes on polling
RetryWithoutReceiver == "polling"

\* main.rs 585-588: with no receiver to read, or a closed one, the closure
\* sleeps 100 ms and returns None, and a None ends an unfold stream
UnfoldWithoutReceiver == "ended"

SubscriptionStart ==
    /\ pairing_receiver = None
    /\ initTask = "spawned"
    /\ listenerTx = "none"
    /\ unfoldPc = "polling"
    /\ sentLog = <<>>
    /\ uiInbox = <<>>

\* main.rs 57-70: the task spawned by init() creates the channel, stores its
\* receiver and starts the listener with its sender. The guard is not held
\* across an await, and the subscription holds it only once a receiver is
\* stored, so that the task never waits for the lock.
InitTask ==
    /\ initTask = "spawned"
    /\ initTask' = "done"
    /\ IF pairing_receiver = None
       THEN pairing_receiver' = Some(<<>>) /\ listenerTx' = "live"
       ELSE UNCHANGED <<pairing_receiver, listenerTx>>
    /\ UNCHANGED <<notSubscription, unfoldPc, sentLog, uiInbox>>

\* notifications.rs 128, 184: the listener sends a notification
ListenerSends ==
    /\ listenerTx = "live"
    /\ Len(sentLog) < MaxNotifications
    /\ Len(pairing_receiver[1]) < ChannelCapacity
    /\ \E notification \in ListenerNotifications :
          /\ pairing_receiver' = Some(Append(pairing_receiver[1], notification))
          /\ sentLog' = Append(sentLog, notification)
    /\ UNCHANGED <<notSubscription, initTask, listenerTx, unfoldPc, uiInbox>>

\* notifications.rs 305-330: the listener task ends and its sender is dropped
ListenerEnds ==
    /\ listenerTx = "live"
    /\ listenerTx' = "dropped"
    /\ UNCHANGED <<notSubscription, pairing_receiver, initTask, unfoldPc, sentLog, uiInbox>>

\* main.rs 574-593: one run of the unfold closure. With a receiver stored,
\* recv() yields the next notification, waits while the channel is empty and
\* open, and yields None once it is empty and closed.
UnfoldStep ==
    /\ unfoldPc = "polling"
    /\ pairing_receiver # None => pairing_receiver[1] # <<>> \/ listenerTx = "dropped"
    /\ IF pairing_receiver # None /\ pairing_receiver[1] # <<>>
       THEN /\ uiInbox' = Append(uiInbox, PairingRequestReceived(Head(pairing_receiver[1])))
            /\ pairing_receiver' = Some(Tail(pairing_receiver[1]))
            /\ UNCHANGED unfoldPc
       ELSE /\ unfoldPc' = UnfoldWithoutReceiver
            /\ UNCHANGED <<uiInbox, pairing_receiver>>
    /\ UNCHANGED <<notSubscription, initTask, listenerTx, sentLog>>

SubscriptionNext ==
    \/ InitTask
    \/ ListenerSends
    \/ ListenerEnds
    \/ UnfoldStep

----------------------------------------------------------------------------
\* ---- the settings application's refresh throttle (settings.rs 301-340, 792-796) ----

\* Duration::as_secs of a duration in half seconds: the whole seconds
as_secs(duration) == duration \div 2

\* what can pass between the assignment of last_interaction (settings.rs 321)
\* and the elapsed() of the RefreshDevices arm (326), in half seconds: next
\* to nothing, or as long as the thread is kept from running
Stalls == {0, 2}

\* a faulty Throttled: the time since the message handled before is tested
ThrottledSincePrevious(previous, now_at_entry, now_at_test) ==
    as_secs(now_at_test - previous) < 1

\* settings.rs 321, 326: last_interaction has just been set to the instant
\* update() was entered, and its elapsed() is what has passed since then
Throttled(previous, now_at_entry, now_at_test) ==
    as_secs(now_at_test - now_at_entry) < 1

\* settings.rs 301-302, 310-313: init starts the first fetch
SettingsStart ==
    /\ settingsClock = 0
    /\ last_interaction = 0
    /\ is_loading = TRUE
    /\ settingsFetches = 1
    /\ lastUpdate = None

\* half a second passes
SettingsTick ==
    /\ settingsClock < MaxHalfSeconds
    /\ settingsClock' = settingsClock + 1
    /\ lastUpdate' = None
    /\ UNCHANGED <<notSettings, last_interaction, is_loading, settingsFetches>>

\* settings.rs 319-333: update(RefreshDevices), sent by the 10-second timer
\* (792-796) and by the Refresh button (756)
HandleRefreshDevices ==
    /\ settingsFetches < MaxSettingsFetches
    /\ \E stall \in Stalls :
          LET now_at_entry == settingsClock
              now_at_test == settingsClock + stall
              suppressed == Throttled(last_interaction, now_at_entry, now_at_test)
          IN /\ now_at_test <= MaxHalfSeconds
             /\ settingsClock' = now_at_test
             /\ last_interaction' = now_at_entry
             /\ is_loading' = IF suppressed THEN is_loading ELSE TRUE
             /\ settingsFetches' = IF suppressed THEN settingsFetches
                                   ELSE settingsFetches + 1
             /\ lastUpdate' = Some([message |-> "RefreshDevices",
                                    entered |-> now_at_entry,
                                    previous |-> last_interaction,
                                    fetched |-> ~suppressed])
    /\ UNCHANGED notSettings

\* settings.rs 319-321, 334-340: update(DevicesUpdated) when a fetch ends
HandleDevicesUpdated ==
    /\ settingsFetches > 0
    /\ settingsFetches' = settingsFetches - 1
    /\ last_interaction' = settingsClock
    /\ is_loading' = FALSE
    /\ lastUpdate' = Some([message |-> "DevicesUpdated",
                           entered |-> settingsClock,
                           previous |-> last_interaction,
                           fetched |-> FALSE])
    /\ UNCHANGED <<notSettings, settingsClock>>

\* settings.rs 319-321, 349-354: update() of a message that starts no fetch,
\* such as SelectDevice or DeselectDevice
HandleInteraction ==
    /\ last_interaction' = settingsClock
    /\ lastUpdate' = Some([message |-> "Interaction",
                           entered |-> settingsClock,
                           previous |-> last_interaction,
                           fetched |-> FALSE])
    /\ UNCHANGED <<notSettings, settingsClock, is_loading, settingsFetches>>

SettingsNext ==
    \/ SettingsTick
    \/ HandleRefreshDevices
    \/ HandleDevicesUpdated
    \/ HandleInteraction

----------------------------------------------------------------------------
\* ---- specifications ----

Idle == use_polling = FALSE

AppletInit ==
    AppletStart /\ PairingStart /\ SmsStart /\ WindowStart /\ Idle
    /\ BridgeStart /\ PoolStart /\ FetchStart /\ SubscriptionStart
    /\ SettingsStart

SpecApplet == AppletInit /\ [][AppletNext]_vars

PairingInit ==
    AppletStart /\ PairingStart /\ SmsStart /\ WindowStart
    /\ BridgeStart /\ PoolStart /\ FetchStart /\ SubscriptionStart
    /\ SettingsStart

SpecPairing == PairingInit /\ [][PairingNext]_vars

SmsInit ==
    AppletStart /\ PairingStart /\ SmsStart /\ WindowStart /\ Idle
    /\ BridgeStart /\ PoolStart /\ FetchStart /\ SubscriptionStart
    /\ SettingsStart

SpecSms == SmsInit /\ [][SmsNext]_vars

WindowInit ==
    AppletStart /\ PairingStart /\ SmsStart /\ WindowStart /\ Idle
    /\ BridgeStart /\ PoolStart /\ FetchStart /\ SubscriptionStart
    /\ SettingsStart

SpecWindow == WindowInit /\ [][WindowNext]_vars

BridgeInit ==
    AppletStart /\ PairingStart /\ SmsStart /\ WindowStart /\ Idle
    /\ BridgeStart /\ PoolStart /\ FetchStart /\ SubscriptionStart
    /\ SettingsStart

SpecBridge == BridgeInit /\ [][BridgeNext]_vars

\* the bridge is a task of its own on the tokio runtime (notifications.rs
\* 391, 462-464): it goes on from the Notify call to its subscriptions, and
\* the select! takes an item that is ready on one of its streams
SpecBridgeLive ==
    /\ BridgeInit
    /\ [][BridgeNext]_vars
    /\ WF_vars(BridgeSubscribe)
    /\ WF_vars(HandleActionInvoked)
    /\ WF_vars(HandleNotificationClosed)

PoolInit ==
    AppletStart /\ PairingStart /\ SmsStart /\ WindowStart /\ Idle
    /\ BridgeStart /\ PoolStart /\ FetchStart /\ SubscriptionStart
    /\ SettingsStart

SpecPool == PoolInit /\ [][PoolNext]_vars

FetchInit ==
    AppletStart /\ PairingStart /\ SmsStart /\ WindowStart /\ Idle
    /\ BridgeStart /\ PoolStart /\ FetchStart /\ SubscriptionStart
    /\ SettingsStart

SpecFetch == FetchInit /\ [][FetchNext]_vars

SubscriptionInit ==
    AppletStart /\ PairingStart /\ SmsStart /\ WindowStart /\ Idle
    /\ BridgeStart /\ PoolStart /\ FetchStart /\ SubscriptionStart
    /\ SettingsStart

SpecSubscription == SubscriptionInit /\ [][SubscriptionNext]_vars

SettingsInit ==
    AppletStart /\ PairingStart /\ SmsStart /\ WindowStart /\ Idle
    /\ BridgeStart /\ PoolStart /\ FetchStart /\ SubscriptionStart
    /\ SettingsStart

SpecSettings == SettingsInit /\ [][SettingsNext]_vars

----------------------------------------------------------------------------
\* ---- claims about the applet ----

\* C1 (as claimed): across refresh cycles, failed fetches included, a device
\* that is in the device map keeps the media-session state last set for it by
\* MediaPlayersUpdated / MediaInfoUpdated.
C1_RefreshKeepsMedia ==
    \A id \in DOMAIN devices : MediaOf(devices[id]) = lastMedia[id]

\* C2: after DevicesUpdated, every id that was in the previous map and is in
\* the fresh snapshot holds the previous map's available_players,
\* current_player and media_info.
C2_MediaCarriedOver ==
    [][lastMsg'.type = "DevicesUpdated" =>
          \A id \in DOMAIN devices \cap Ids(lastMsg'.devices) :
              /\ id \in DOMAIN devices'
              /\ MediaOf(devices'[id]) = MediaOf(devices[id])]_vars

\* a DevicesUpdated that carried media-session state over a fresh record
C2_Witness ==
    /\ lastMsg.type = "DevicesUpdated"
    /\ \E id \in DOMAIN devices \cap old_ids :
          /\ devices[id].media_info # None
          /\ devices[id].available_players # <<>>
          /\ devices[id].current_player # None

\* C3: after DevicesUpdated(fresh) the key set of the device map is exactly
\* the set of ids occurring in fresh.
C3_KeysAreFreshIds ==
    lastMsg.type = "DevicesUpdated" => DOMAIN devices = Ids(lastMsg.devices)

\* a DevicesUpdated that dropped a device of the previous map and kept another
C3_Witness ==
    /\ lastMsg.type = "DevicesUpdated"
    /\ old_ids \ DOMAIN devices # {}
    /\ DOMAIN devices # {}

----------------------------------------------------------------------------
\* ---- claims about the pairing watcher ----

\* notifications sent so far for a device
Emitted(d) == Cardinality({i \in 1..Len(chan) : chan[i].device_id = d})

\* false->true edges of a sequence of booleans, the value before it being false
Edges(seq) ==
    Cardinality({i \in 1..Len(seq) : seq[i] /\ (i = 1 \/ ~seq[i - 1])})

\* this step sends a notification for device d
EmitsFor(d) ==
    /\ Len(chan') = Len(chan) + 1
    /\ chan'[Len(chan')].device_id = d

\* C4 (as claimed): in polling mode the number of PairingNotifications
\* emitted for a device equals the number of false->true edges in the
\* sequence of isPairRequestedByPeer values polled for it.
C4_OneNotificationPerEdge ==
    watcher = "poll" => \A d \in PairIds : Emitted(d) = Edges(polled[d])

\* C5 (as claimed): in both modes the watcher never emits a second
\* PairingNotification for a device unless the device was observed in a
\* non-requested state since the previous one.
C5_NoRepeatedNotification ==
    [][\A d \in PairIds : EmitsFor(d) => d \notin notified]_vars

\* C6: in signal mode a notification is emitted only for a pairStateChanged
\* signal whose state is 2, and its device id is the last segment of the
\* signal's object path.
C6_SignalEmission ==
    [][(watcher = "signal" /\ chan' # chan) =>
          /\ lastSignal'.ok
          /\ lastSignal'.body = <<"I32", 2>>
          /\ \E d \in PairIds :
                /\ lastSignal'.path = DevicePath(d)
                /\ EmitsFor(d)
          /\ SubSeq(chan', 1, Len(chan)) = chan]_vars

\* a notification sent in signal mode
C6_Witness ==
    /\ watcher = "signal"
    /\ lastSend = "ok"
    /\ lastSignal.ok
    /\ lastSignal.path = DevicePath(<<"b">>)
    /\ Emitted(<<"b">>) > 0

\* C7: with use_polling = false the signal subscription is attempted first;
\* when it fails the polling loop runs, and polling, once entered, is never
\* left (no return to signal mode).
C7_OneWayDegradation ==
    [][/\ (~use_polling /\ watcher = "new" => watcher' \in {"new", "subscribe", "done"})
       /\ (subscription' = "failed" => watcher' = "poll")
       /\ (~use_polling /\ watcher' = "poll" => subscription' = "failed")
       /\ (watcher = "poll" => watcher' = "poll" /\ subscription' = subscription)]_vars

\* the polling loop at work after a failed subscription
C7_Witness ==
    /\ ~use_polling
    /\ subscription = "failed"
    /\ watcher = "poll"
    /\ ticks > 1
    /\ chan # <<>>

\* C8 (as claimed): with the receiver dropped, the watcher task terminates at
\* its next failed send.
C8_FailedSendStopsWatcher ==
    lastSend = "failed" => watcher = "done"

\* C10: when the stream ends after a successful subscription the task
\* terminates: no fallback to polling, no resubscription, nothing emitted
\* afterwards; polling, once entered, never terminates.
C10_StreamEndTerminates ==
    [][/\ (subscription = "ok" =>
              /\ subscription' = "ok"
              /\ watcher' \in {"signal", "done"})
       /\ (streamEnded => streamEnded' /\ chan' = chan)
       /\ (watcher = "done" => watcher' = "done" /\ chan' = chan)
       /\ (watcher = "poll" => watcher' = "poll")]_vars

\* the task ended because the stream ended, after it had sent a notification
C10_Witness ==
    /\ subscription = "ok"
    /\ streamEnded
    /\ watcher = "done"
    /\ chan # <<>>

----------------------------------------------------------------------------
\* ---- claims about the conversation signal watcher ----

\* C9: once the receiver is dropped the watcher leaves its loop at the first
\* send attempt, the task ends, and nothing further is emitted.
C9_SmsWatcherStops ==
    [][/\ (lastSmsSend' = "failed" => smsWatcher' = "ended")
       /\ (smsRxDropped => smsChan' = smsChan)
       /\ (smsWatcher = "ended" => smsWatcher' = "ended" /\ smsChan' = smsChan)]_vars

\* the watcher ended on a failed send after it had delivered a message
C9_Witness ==
    /\ smsRxDropped
    /\ lastSmsSend = "failed"
    /\ smsWatcher = "ended"
    /\ smsChan # <<>>

----------------------------------------------------------------------------
\* ---- claims about the SMS window ----

\* the id is a sending_<timestamp> placeholder
IsPlaceholder(m) ==
    /\ Len(m.id) > 8
    /\ SubSeq(m.id, 1, 8) = <<"s", "e", "n", "d", "i", "n", "g", "_">>

\* the thread id is a local new_<timestamp>
IsLocalThread(thread_id) ==
    /\ Len(thread_id) > 4
    /\ SubSeq(thread_id, 1, 4) = <<"n", "e", "w", "_">>

\* C11 (as claimed): the ids in the message list are pairwise distinct, also
\* after two sends within the same millisecond.
C11_MessageIdsDistinct ==
    \A i, j \in 1..Len(messages) : i # j => messages[i].id # messages[j].id

\* C12: the message list is sorted by date ascending in every state, hence
\* after every MessageReceived, SendMessage and SelectThread.
C12_MessagesSorted ==
    \A i, j \in 1..Len(messages) : i < j => messages[i].date <= messages[j].date

\* an older message of the selected thread stands before the placeholder of a send
C12_Witness ==
    /\ Len(messages) = 2
    /\ ~IsPlaceholder(messages[1])
    /\ IsPlaceholder(messages[2])
    /\ messages[1].date < messages[2].date

\* C13 (as claimed): the conversation list is sorted by timestamp descending
\* in every state, hence after every ConversationsLoaded, MessageReceived,
\* SendMessage and StartChatWithNumber, whatever timestamps the daemon reports.
C13_ConversationsSorted ==
    \A i, j \in 1..Len(conversations) :
        i < j => conversations[i].timestamp >= conversations[j].timestamp

\* C14 (as claimed): no two entries of the conversation list have the same
\* thread_id, whatever records the daemon returns.
C14_ThreadIdsDistinct ==
    \A i, j \in 1..Len(conversations) :
        i # j => conversations[i].thread_id # conversations[j].thread_id

\* C15 (as claimed): the message list never holds both the placeholder of a
\* sent text and the real sent message of the same thread with that text.
C15_PlaceholderSuperseded ==
    ~ \E i, j \in 1..Len(messages) :
        /\ IsPlaceholder(messages[i])
        /\ ~IsPlaceholder(messages[j])
        /\ messages[j].type_ = 2
        /\ messages[j].thread_id = messages[i].thread_id
        /\ messages[j].body = messages[i].body

\* C16 (as claimed): no step removes a conversation that start_chat_with_number
\* created (thread id new_<timestamp>) from the conversation list.
C16_LocalConversationKept ==
    [][\A i \in 1..Len(conversations) :
          IsLocalThread(conversations[i].thread_id)
          => \E j \in 1..Len(conversations') :
                conversations'[j].thread_id = conversations[i].thread_id]_vars

\* the input is empty or whitespace only
Blank(input) == \A k \in 1..Len(input) : input[k] \in {" ", "\t", "\n"}

\* no conversation of the list has the selected thread's id
NoConversationSelected ==
    \/ selected_thread = None
    \/ \A i \in 1..Len(conversations) : conversations[i].thread_id # selected_thread[1]

\* C17: a SendMessage whose input is blank, or that finds no selected thread
\* or no conversation of the selected thread, changes neither list nor the
\* input and spawns no send task.
C17_UnmetPreconditionNoOp ==
    [][(sendOutcome' # "none" /\ (Blank(message_input) \/ NoConversationSelected))
       => /\ sendOutcome' = "ignored"
          /\ UNCHANGED <<messages, conversations, message_input, sendTasks>>]_vars

\* a whitespace-only input was ignored although its thread has a conversation
C17_Witness ==
    /\ sendOutcome = "ignored"
    /\ message_input = <<" ">>
    /\ ~NoConversationSelected
    /\ sendTasks = <<>>

\* C18: the step of SendMessage that spawns the send task has put the
\* placeholder (id sending_<now_millis>, type 2, selected thread, the input as
\* body) in the message list, has set the conversation's last_message and
\* timestamp and has left both lists sorted; the task it spawns has made no
\* delivery attempt yet.
C18_LocalEffectsFirst ==
    [][sendOutcome' = "spawned"
       => /\ \E k \in 1..Len(messages'), n \in clock..clock' :
                /\ messages'[k].id = <<"s", "e", "n", "d", "i", "n", "g", "_">>
                                       \o I64ToString(n)
                /\ messages'[k].type_ = 2
                /\ messages'[k].thread_id = selected_thread[1]
                /\ messages'[k].body = message_input
          /\ \E c \in 1..Len(conversations') :
                /\ conversations'[c].thread_id = selected_thread[1]
                /\ conversations'[c].last_message = message_input
                /\ conversations'[c].timestamp \in clock..clock'
          /\ \A i, j \in 1..Len(messages') :
                i < j => messages'[i].date <= messages'[j].date
          /\ \A i, j \in 1..Len(conversations') :
                i < j => conversations'[i].timestamp >= conversations'[j].timestamp
          /\ Len(sendTasks') = Len(sendTasks) + 1
          /\ sendTasks'[Len(sendTasks')].pc = "spawned"
          /\ sendTasks'[Len(sendTasks')].attempts = <<>>
          /\ \A t \in 1..Len(sendTasks) : sendTasks'[t] = sendTasks[t]]_vars

\* a second message was sent while the list held two conversations, and its
\* task has not started
C18_Witness ==
    /\ sendOutcome = "spawned"
    /\ Len(conversations) >= 2
    /\ Len(messages) = 2
    /\ sendTasks # <<>>
    /\ sendTasks[Len(sendTasks)].attempts = <<>>

\* what a task's attempts look like at any moment of send_sms
AttemptsInOrder(task) ==
    /\ Len(task.attempts) <= 2
    /\ \A a \in 1..Len(task.attempts) :
          /\ task.attempts[a].phone = task.phone_number
          /\ task.attempts[a].message = task.message
    /\ (Len(task.attempts) >= 1 => task.attempts[1].via = "cli")
    /\ (Len(task.attempts) = 2 => task.attempts[2].via = "dbus")
    /\ (task.pc = "done" => Len(task.attempts) >= 1)

\* C19 (as claimed): the first attempt is the CLI's, the D-Bus
\* sendWithoutConversation call is issued if and only if the CLI attempt
\* failed, both attempts carry the task's number and body, and there are at
\* most two attempts.
C19_FallbackIffCliFailed ==
    \A t \in 1..Len(sendTasks) :
        /\ AttemptsInOrder(sendTasks[t])
        /\ (Len(sendTasks[t].attempts) = 2 => sendTasks[t].cli = "failed")
        /\ (sendTasks[t].pc = "done" /\ sendTasks[t].cli = "failed"
              => Len(sendTasks[t].attempts) = 2)

\* C19 (amended): as claimed, except that the D-Bus call is issued if and only
\* if the CLI attempt failed and the session connection could be opened.
C19_FallbackIffCliFailedAndConnected ==
    \A t \in 1..Len(sendTasks) :
        /\ AttemptsInOrder(sendTasks[t])
        /\ (Len(sendTasks[t].attempts) = 2
              => sendTasks[t].cli = "failed" /\ sendTasks[t].bus = "ok")
        /\ (sendTasks[t].pc = "done" /\ sendTasks[t].cli = "failed"
              /\ sendTasks[t].bus = "ok"
              => Len(sendTasks[t].attempts) = 2)
        /\ (sendTasks[t].cli = "ok" => sendTasks[t].pc = "done")

\* send_sms returned after a failed CLI attempt and a D-Bus call
C19_Witness ==
    \E t \in 1..Len(sendTasks) :
        /\ sendTasks[t].pc = "done"
        /\ sendTasks[t].cli = "failed"
        /\ Len(sendTasks[t].attempts) = 2

\* C20: a step of a send task (an attempt, or the task's end) changes neither
\* list, nor the selected thread, nor the input.
C20_DeliveryLeavesWindowAlone ==
    [][(sendTasks' # sendTasks /\ sendOutcome' = "none")
       => UNCHANGED <<messages, conversations, selected_thread, message_input>>]_vars

\* both attempts have failed and the placeholder is still in the message list
C20_Witness ==
    \E t \in 1..Len(sendTasks) :
        /\ sendTasks[t].pc = "done"
        /\ sendTasks[t].result = "failed"
        /\ \E k \in 1..Len(messages) :
              IsPlaceholder(messages[k]) /\ messages[k].body = sendTasks[t].message

----------------------------------------------------------------------------
\* ---- claims about the notification action bridge ----

\* the last step took an ActionInvoked(id, key) with the recorded id and the
\* key "default" or "open"
MatchingActionHandled ==
    /\ handled # None
    /\ handled[1].stream = "action"
    /\ handled[1].item.ok
    /\ handled[1].item.body[1] = "US"
    /\ handled[1].item.body[2] = notification_id[1]
    /\ handled[1].item.body[3] \in {"default", "open"}

\* the last step took a NotificationClosed(id, reason) with the recorded id
MatchingClosedHandled ==
    /\ handled # None
    /\ handled[1].stream = "closed"
    /\ handled[1].item.ok
    /\ handled[1].item.body[1] = "UU"
    /\ handled[1].item.body[2] = notification_id[1]

\* the processes that were started
Started == {i \in 1..Len(launches) : launches[i].ok}

\* C21: when the bridge, still waiting, receives a NotificationClosed with the
\* recorded id, it returns and has launched nothing.
C21_ClosedReturnsWithoutLaunch ==
    MatchingClosedHandled =>
        /\ bridgePc = "returned"
        /\ brokeOn = "closed"
        /\ launches = <<>>

\* NotificationClosed(42, 2) was received while an ActionInvoked(42, "default")
\* was still pending
C21_Witness ==
    /\ notification_id = Some(42)
    /\ handled = Some([stream |-> "closed",
                       item |-> [ok |-> TRUE, body |-> <<"UU", 42, 2>>]])
    /\ actionStream # <<>>
    /\ Head(actionStream).body = <<"US", 42, "default">>
    /\ bridgePc = "returned"

\* C22 (as claimed): on a matching ActionInvoked the bridge starts the
\* follow-up and returns; the follow-up is started at most once and never
\* without such a signal.
C22_ActionLaunchesOnce ==
    /\ MatchingActionHandled =>
          /\ bridgePc = "returned"
          /\ brokeOn = "action"
          /\ Cardinality(Started) = 1
    /\ Cardinality(Started) <= 1
    /\ launches # <<>> => MatchingActionHandled

\* C22 (amended): on a matching ActionInvoked the bridge spawns xdg-open and,
\* only when that spawn fails, cosmic-kdeconnect-settings, and returns whether
\* or not a process was started; a process is started at most once and
\* nothing is spawned without such a signal.
C22_ActionAttemptsLaunchOnce ==
    /\ MatchingActionHandled =>
          /\ bridgePc = "returned"
          /\ brokeOn = "action"
          /\ Len(launches) \in {1, 2}
          /\ launches[1].command = "xdg-open"
          /\ Len(launches) = 2 <=> ~launches[1].ok
          /\ Len(launches) = 2 => launches[2].command = "cosmic-kdeconnect-settings"
    /\ Cardinality(Started) <= 1
    /\ launches # <<>> => MatchingActionHandled

\* ActionInvoked(id, "open") was received while the matching
\* NotificationClosed was still pending, and the fallback command started
C22_Witness ==
    /\ MatchingActionHandled
    /\ handled[1].item.body[3] = "open"
    /\ closeStream # <<>>
    /\ Head(closeStream).body = <<"UU", notification_id[1], 2>>
    /\ Len(launches) = 2
    /\ launches[2].ok

\* C23: a stream item that is no matching ActionInvoked and no matching
\* NotificationClosed (another id, another action key, an undecodable body,
\* an Err) leaves the bridge waiting, with nothing launched.
C23_NonMatchingIgnored ==
    (handled # None /\ ~MatchingActionHandled /\ ~MatchingClosedHandled) =>
        /\ bridgePc = "waiting"
        /\ brokeOn = "none"
        /\ launches = <<>>

\* an ActionInvoked with the recorded id and the key "dismiss" was received,
\* after a NotificationClosed for another id
C23_Witness ==
    /\ handled # None
    /\ handled[1].item.body = <<"US", notification_id[1], "dismiss">>
    /\ bridgePc = "waiting"
    /\ closeStream # <<>>
    /\ Head(closeStream).body[1] = "UU"
    /\ Head(closeStream).body[2] # notification_id[1]

----------------------------------------------------------------------------
\* ---- claims about the connection pool ----

\* no shutdown path has completed its cleanup()
NoCleanupYet == \A c \in Cleaners : cleanerPc[c] # "done"

C25_TornDownOnce ==
    /\ (\E c \in Cleaners : cleanerPc[c] = "done") => pool = None
    /\ closedLog <= 1

\* C26 (as claimed): no task holds the CONNECTION_POOL lock while it awaits
\* Connection::session().
C26_LockOnlyForSlot ==
    \A t \in Callers : callerPc[t] = "connecting" => poolLock # t

\* C28: a get_connection() whose session fails returns Err and leaves the
\* slot empty, and a get_connection() that finds the slot empty goes on to
\* establish a session.
C28_FailureLeavesSlotEmpty ==
    [][\A t \in Callers :
          /\ (/\ callerPc[t] = "connecting"
              /\ callerPc'[t] = "returned"
              /\ connectionsMade' = connectionsMade)
                => (callerResult'[t] = <<"Err">> /\ pool' = None)
          /\ (callerPc[t] = "locked" /\ callerPc'[t] # "locked" /\ pool = None)
                => callerPc'[t] = "connecting"]_vars

\* one task's call failed, and a later call of the other task established
\* the connection
C28_Witness ==
    /\ \A c \in Cleaners : cleanerPc[c] = "idle"
    /\ \E t \in Callers, u \in Callers :
          /\ calls[t] = 1
          /\ callerResult[t] = <<"Err">>
          /\ callerResult[u] = <<"Ok", 1>>
    /\ pool = Some(1)

\* C29: every cleanup() leaves the slot empty, and a cleanup() that finds it
\* empty changes nothing else: no line is written, no connection made, no
\* caller affected.
C29_CleanupIdempotent ==
    [][\A c \in Cleaners :
          (cleanerPc[c] = "locked" /\ cleanerPc'[c] = "done") =>
              /\ pool' = None
              /\ pool = None =>
                    /\ closedLog' = closedLog
                    /\ connectionsMade' = connectionsMade
                    /\ callerPc' = callerPc
                    /\ callerResult' = callerResult]_vars

\* cleanup() ran twice around the only connection ever made: one run closed
\* it, the other found the slot empty
C29_Witness ==
    /\ \A c \in Cleaners : cleanerPc[c] = "done"
    /\ connectionsMade = 1
    /\ closedLog = 1
    /\ pool = None

----------------------------------------------------------------------------
\* ---- claims about locks held across bus calls ----

\* C27 (as claimed): while the pairing poller awaits the device-info lookup
\* or the send on the outbound channel, the known_pairing_states lock is
\* free.
C27_NoLockAcrossAwait ==
    awaitingInfo # None => statesLock = "free"

----------------------------------------------------------------------------
\* ---- claims about the filter of the conversation signal watcher ----

\* C30: a step of the watcher emits a MessageReceived only when the item it
\* read is a signal whose object path contains the device id, whose member
\* is conversationUpdated and whose body is a structure; every other item is
\* dropped with the channel untouched and the watcher still listening.
C30_OnlyMatchingSignalsEmit ==
    [][lastSmsItem' # None =>
          LET item == lastSmsItem'[1]
              wanted == /\ item.ok
                        /\ Contains(item.path, SmsDeviceId)
                        /\ item.member = "conversationUpdated"
                        /\ item.body[1] = "Struct"
          IN /\ smsChan' # smsChan => wanted
             /\ ~wanted => /\ smsChan' = smsChan
                           /\ smsWatcher' = "listen"]_vars

\* after an emitted message, a conversationUpdated signal of the other device
\* was read and dropped
C30_Witness ==
    /\ lastSmsItem # None
    /\ lastSmsItem[1].ok
    /\ lastSmsItem[1].member = "conversationUpdated"
    /\ lastSmsItem[1].body[1] = "Struct"
    /\ ~Contains(lastSmsItem[1].path, SmsDeviceId)
    /\ Len(smsChan) = 1
    /\ smsWatcher = "listen"

----------------------------------------------------------------------------
\* ---- claims about the parse of a conversationUpdated payload ----

\* "unknown"
UnknownThread == <<"u", "n", "k", "n", "o", "w", "n">>

\* C31: whenever the watcher reads a wanted signal with a structure body, a
\* Message is produced (the parse does not fail) and each of its fields is
\* the payload's field of the expected type, or else the default: "" for the
\* body, "Unknown" for the address, the current time for the date, 1 for the
\* type, "unknown" for the thread id; the id is "<thread_id>_<date>".
C31_ParsedFieldByField ==
    (/\ lastSmsItem # None
     /\ lastSmsItem[1].ok
     /\ lastSmsItem[1].member = "conversationUpdated"
     /\ Contains(lastSmsItem[1].path, SmsDeviceId)
     /\ lastSmsItem[1].body[1] = "Struct"
     /\ ~smsRxDropped) =>
        /\ lastSmsSend = "ok"
        /\ smsChan # <<>>
        /\ LET f == lastSmsItem[1].body[2]
               m == smsChan[Len(smsChan)]
               Has(i, tag) == Len(f) > i /\ f[i + 1][1] = tag
               first == f[3][2][1]
           IN /\ m.body = IF Has(1, "Str") THEN f[2][2] ELSE ""
              /\ m.address =
                    IF /\ Has(2, "Array")
                       /\ f[3][2] # <<>>
                       /\ first[1] = "Struct"
                       /\ first[2] # <<>>
                       /\ first[2][1][1] = "Str"
                    THEN first[2][1][2] ELSE "Unknown"
              /\ m.date = IF Has(3, "I64") THEN f[4][2] ELSE 9
              /\ m.type_ = IF Has(4, "I32") THEN f[5][2] ELSE 1
              /\ m.thread_id = IF Has(6, "I64") THEN I64ToString(f[7][2])
                               ELSE UnknownThread
              /\ m.id = m.thread_id \o <<"_">> \o I64ToString(m.date)
              /\ (Has(6, "I64") /\ f[7][2] = 7 /\ m.date = 12)
                    => m.id = <<"7", "_", "1", "2">>
              /\ (~Has(6, "I64") /\ m.date = 9)
                    => m.id = <<"u", "n", "k", "n", "o", "w", "n", "_", "9">>

\* the payload whose fields all have another type was parsed: every field
\* of the Message is its default
C31_Witness ==
    /\ lastSmsItem # None
    /\ lastSmsItem[1].body[1] = "Struct"
    /\ Len(lastSmsItem[1].body[2]) = 7
    /\ lastSmsItem[1].body[2][4] = <<"I32", 5>>
    /\ lastSmsSend = "ok"
    /\ smsChan[Len(smsChan)] =
          [id |-> <<"u", "n", "k", "n", "o", "w", "n", "_", "9">>,
           thread_id |-> UnknownThread,
           body |-> "",
           address |-> "Unknown",
           date |-> 9,
           type_ |-> 1,
           read |-> TRUE]

----------------------------------------------------------------------------
\* ---- claims about the fetches ----

\* a fetch_devices() call that got the daemon's list of ids
GotIds == devicesCall # None /\ devicesCall[1].conn_ok /\ devicesCall[1].reply # None

\* C32: fetch_devices returns exactly one Device per id the daemon reports, in
\* the reported order, whatever reads fail: a read that fails gives the default
\* (name "Unknown", type "phone", the flags false, pairing_requests 0), and
\* battery_level and is_charging are None whenever the device has no battery
\* plugin, signal_strength and network_type None whenever it has no
\* connectivity plugin.
C32_OneDevicePerId ==
    GotIds =>
        LET ids == devicesCall[1].reply[1]
            out == devicesCall[1].returned
        IN /\ Len(out) = Len(ids)
           /\ \A i \in 1..Len(ids) :
                LET a == devicesCall[1].answers[ids[i]]
                    d == out[i]
                    IsTrue(v) == v[1] = "Bool" /\ v[2]
                IN /\ d.id = ids[i]
                   /\ d.name = (IF a.name[1] = "Str" THEN a.name[2] ELSE "Unknown")
                   /\ d.device_type = (IF a.type[1] = "Str" THEN a.type[2] ELSE "phone")
                   /\ d.is_reachable = IsTrue(a.isReachable)
                   /\ d.is_paired = IsTrue(a.isPaired)
                   /\ d.has_battery = IsTrue(a.battery)
                   /\ d.has_share = IsTrue(a.share)
                   /\ d.has_sftp = IsTrue(a.sftp)
                   /\ d.pairing_requests =
                        (IF a.pairingRequestsCount[1] = "I32"
                         THEN a.pairingRequestsCount[2] ELSE 0)
                   /\ (~IsTrue(a.battery)
                          => d.battery_level = None /\ d.is_charging = None)
                   /\ (~IsTrue(a.connectivity)
                          => d.signal_strength = None /\ d.network_type = None)

\* the daemon reports "b" then "a"; no read about "b" succeeds, and "a" is the
\* scenario's device without a battery plugin
C32_Witness ==
    /\ GotIds
    /\ devicesCall[1].reply = Some(<<"b", "a">>)
    /\ devicesCall[1].answers["b"] = AnswersNone
    /\ devicesCall[1].answers["a"] = AnswersNoPlugins
    /\ Len(devicesCall[1].returned) = 2
    /\ devicesCall[1].returned[1].name = "Unknown"
    /\ devicesCall[1].returned[2].has_sftp
    /\ devicesCall[1].returned[2].battery_level = None

\* the calls that could not reach the bus, and those that reached it but got
\* no answer from the daemon
DevicesBusDown == devicesCall # None /\ ~devicesCall[1].conn_ok
DevicesDaemonDown ==
    devicesCall # None /\ devicesCall[1].conn_ok /\ devicesCall[1].reply = None
ConversationsBusDown == conversationsCall # None /\ ~conversationsCall[1].busOk
ConversationsDaemonDown ==
    /\ conversationsCall # None
    /\ conversationsCall[1].busOk
    /\ conversationsCall[1].reply = None

\* C33 (as claimed): when the bus or the daemon is unreachable, fetch_devices
\* returns an empty device list and fetch_conversations an empty conversation
\* list.
C33_UnreachableGivesEmpty ==
    /\ DevicesBusDown \/ DevicesDaemonDown => devicesCall[1].returned = <<>>
    /\ ConversationsBusDown \/ ConversationsDaemonDown
          => conversationsCall[1].returned = <<>>

\* C33 (amended): when the bus or the daemon is unreachable fetch_devices
\* returns an empty device list; fetch_conversations returns an empty list
\* when the bus is unreachable, and the single information row "info_1",
\* stamped with the current time, when the bus answers but the daemon does
\* not. Both return a list in every case.
C33_UnreachableGivesEmptyOrInfoRow ==
    /\ DevicesBusDown \/ DevicesDaemonDown => devicesCall[1].returned = <<>>
    /\ ConversationsBusDown => conversationsCall[1].returned = <<>>
    /\ ConversationsDaemonDown =>
          /\ Len(conversationsCall[1].returned) = 1
          /\ conversationsCall[1].returned[1].thread_id = <<"i", "n", "f", "o", "_", "1">>
          /\ conversationsCall[1].returned[1].timestamp = conversationsCall[1].now

\* the devices call found no daemon and the conversations call found no bus
C33_Witness ==
    /\ DevicesDaemonDown
    /\ ConversationsBusDown
    /\ devicesCall[1].returned = <<>>
    /\ conversationsCall[1].returned = <<>>

----------------------------------------------------------------------------
\* ---- claims about the signals emitted before the bridge subscribes ----

\* the bridge has ended: it returned, with Ok or Err, or panicked
BridgeEnded == bridgePc \notin {"start", "notified", "waiting"}

\* C34 (as claimed): no terminal signal of the published notification is
\* missed: once a matching NotificationClosed or ActionInvoked(default/open)
\* has been emitted after the Notify call returned the id, the bridge
\* eventually ends, also when the signal was emitted before the two
\* subscriptions were established.
C34_TerminalSignalEndsBridge == terminalEmitted ~> BridgeEnded

----------------------------------------------------------------------------
\* ---- claims about the pairing-notifications subscription ----

\* C35 (as claimed): the subscription delivers every PairingNotification the
\* listener sends as a PairingRequestReceived, in every interleaving of the
\* receiver's creation by init's task and the subscription's first poll: its
\* stream ends only once the sender is dropped and everything sent has been
\* delivered.
C35_EveryNotificationDelivered ==
    unfoldPc = "ended" =>
        /\ listenerTx = "dropped"
        /\ Len(uiInbox) = Len(sentLog)
        /\ \A i \in 1..Len(sentLog) : uiInbox[i] = PairingRequestReceived(sentLog[i])

----------------------------------------------------------------------------
\* ---- claims about the window's preview and message list ----

\* a step of MessageReceived that changed the conversation list: no other
\* action changes it and leaves its length, the fetches in flight, the send
\* tasks and the queued selections as they are
ReceivedIntoPreview ==
    /\ conversations' # conversations
    /\ Len(conversations') = Len(conversations)
    /\ loading' = loading
    /\ sendTasks' = sendTasks
    /\ pendingSelect' = pendingSelect
    /\ clock' = clock
    /\ sendOutcome' = "none"

\* the threads that have exactly one conversation entry
SingleThreads ==
    {conversations[i].thread_id : i \in
        {k \in 1..Len(conversations) :
            \A j \in 1..Len(conversations) :
                conversations[j].thread_id = conversations[k].thread_id => j = k}}

\* C36 (as claimed): a MessageReceived never moves the timestamp of the
\* thread's conversation backwards: an older message delivered later does not
\* overwrite the preview of a newer one.
C36_PreviewFollowsNewest ==
    [][ReceivedIntoPreview =>
          \A thread_id \in SingleThreads :
              LET before == conversations[FindConversation(conversations, thread_id)[1]]
                  after == conversations'[FindConversation(conversations', thread_id)[1]]
              IN after.timestamp >= before.timestamp]_vars

\* C37: every message of the message list belongs to the selected thread, and
\* the list is empty while no thread is selected: a MessageReceived for
\* another thread leaves the list alone and SelectThread empties it.
C37_MessagesOfSelectedThread ==
    /\ selected_thread = None => messages = <<>>
    /\ \A k \in 1..Len(messages) : selected_thread = Some(messages[k].thread_id)

\* a thread other than 7 is selected and shows a message, and the message of
\* thread 7 dated 5 has arrived: it is the preview of its conversation
C37_Witness ==
    /\ selected_thread # None
    /\ selected_thread # Some(<<"7">>)
    /\ messages # <<>>
    /\ \E i \in 1..Len(conversations) :
          /\ conversations[i].thread_id = <<"7">>
          /\ conversations[i].timestamp = 5

----------------------------------------------------------------------------
\* ---- claims about the settings application ----

\* C38 (as claimed): a RefreshDevices handled at least one second after the
\* message handled before it issues a device fetch; it is suppressed only when
\* an interaction occurred less than a second earlier.
C38_RefreshAfterQuietSecond ==
    /\ lastUpdate # None
    /\ lastUpdate[1].message = "RefreshDevices"
    /\ as_secs(lastUpdate[1].entered - lastUpdate[1].previous) >= 1
    => lastUpdate[1].fetched

====
